---- MODULE Spec2Model ----
(***************************************************************************)
(* Model of the angle-website serverless handlers: the data access layer   *)
(* (lib/supabase.ts), the JSON API handlers, the category-slug resolution  *)
(* and the HTML renderers that rewrite the meta tags of the static shell.  *)
(*                                                                         *)
(* Text is modelled by TLA+ strings, character by character: Len, SubSeq,  *)
(* Head, Tail and \o act on a string as on the sequence of its characters. *)
(* A nullable value of the program is None (null) or Some(v).              *)
(***************************************************************************)
EXTENDS Integers, Sequences, FiniteSets, TLC

VARIABLES db, resp, clock, episodesCache, cacheTimestamp, cacheReadAt, calls

vars == <<db, resp, clock, episodesCache, cacheTimestamp, cacheReadAt, calls>>
\* the state of the Express server (server.js): its clock, its cache and the
\* calls of getEpisodes in progress; cacheReadAt records when the cached list
\* was read from the datastore
server == <<clock, episodesCache, cacheTimestamp, cacheReadAt, calls>>

(***************************************************************************)
(* Bounds of the model                                                     *)
(***************************************************************************)
MaxEpisodes == 2
MaxTime == 2

(***************************************************************************)
(* Nullable values                                                         *)
(***************************************************************************)
None == <<>>
Some(v) == <<v>>
\* JavaScript truthiness of a nullable string: null and "" are falsy
Truthy(o) == o # None /\ o[1] # ""
\* a || b on nullable strings
OrElse(a, b) == IF Truthy(a) THEN a ELSE b

(***************************************************************************)
(* Characters and strings                                                  *)
(***************************************************************************)
At(s, i) == SubSeq(s, i, i)
Min(S) == CHOOSE i \in S : \A j \in S : i <= j
Max(S) == CHOOSE i \in S : \A j \in S : i >= j

\* the printable ASCII characters in code order, from code 32 (the backtick,
\* which a TLA+ string cannot hold, is replaced by a second "_" that no
\* lookup reaches)
ASCII == " !\"#$%&'()*+,-./0123456789:;<=>?@ABCDEFGHIJKLMNOPQRSTUVWXYZ[\\]^__abcdefghijklmnopqrstuvwxyz{|}~"
UPPER == "ABCDEFGHIJKLMNOPQRSTUVWXYZ"
LOWER == "abcdefghijklmnopqrstuvwxyz"
DIGITS == "0123456789"
Chars(s) == {At(s, i) : i \in 1..Len(s)}
\* UTF-16 code unit of a character (tab, newline and return lie below 32)
CodeOf(c) ==
  IF c = "\t" THEN 9 ELSE IF c = "\n" THEN 10 ELSE IF c = "\r" THEN 13
  ELSE 31 + Min({i \in 1..Len(ASCII) : At(ASCII, i) = c})
\* the characters matched by \s
Whitespace == {" ", "\t", "\n", "\r"}
\* the characters matched by [a-z0-9]
AlphaNum == Chars(LOWER) \cup Chars(DIGITS)

\* String.prototype.toLowerCase on one character
LowerChar(c) ==
  IF c \in Chars(UPPER)
  THEN At(LOWER, Min({i \in 1..Len(UPPER) : At(UPPER, i) = c}))
  ELSE c

RECURSIVE toLowerCase(_)
toLowerCase(s) == IF s = "" THEN "" ELSE LowerChar(Head(s)) \o toLowerCase(Tail(s))

\* String.prototype.charAt(0).toUpperCase()
UpperChar(c) ==
  IF c \in Chars(LOWER)
  THEN At(UPPER, Min({i \in 1..Len(LOWER) : At(LOWER, i) = c}))
  ELSE c

\* s.replace(/[C]/g, r): every character of the class C becomes r
RECURSIVE ReplaceIn(_, _, _)
ReplaceIn(s, C, r) ==
  IF Len(s) = 0 THEN ""
  ELSE IF Len(s) = 1 THEN (IF s \in C THEN r ELSE s)
  ELSE ReplaceIn(SubSeq(s, 1, Len(s) \div 2), C, r)
         \o ReplaceIn(SubSeq(s, Len(s) \div 2 + 1, Len(s)), C, r)

\* s.replace(/[^C]/g, r): every character outside the class C becomes r
RECURSIVE ReplaceNotIn(_, _, _)
ReplaceNotIn(s, C, r) ==
  IF s = "" THEN ""
  ELSE (IF Head(s) \notin C THEN r ELSE Head(s)) \o ReplaceNotIn(Tail(s), C, r)

\* s.replace(/[C]+/g, r): every maximal run of characters of C becomes one r
RECURSIVE ReplaceRuns(_, _, _)
ReplaceRuns(s, C, r) ==
  IF s = "" THEN ""
  ELSE IF Head(s) \in C
       THEN IF Len(s) > 1 /\ At(s, 2) \in C
            THEN ReplaceRuns(Tail(s), C, r)
            ELSE r \o ReplaceRuns(Tail(s), C, r)
       ELSE Head(s) \o ReplaceRuns(Tail(s), C, r)

\* the order of Array.prototype.sort() without a comparator: by code units
StrLess(a, b) ==
  LET n == IF Len(a) < Len(b) THEN Len(a) ELSE Len(b)
      d == {i \in 1..n : At(a, i) # At(b, i)}
  IN IF d = {} THEN Len(a) < Len(b)
     ELSE CodeOf(At(a, Min(d))) < CodeOf(At(b, Min(d)))

RECURSIVE InsertSorted(_, _)
InsertSorted(seq, x) ==
  IF seq = <<>> THEN <<x>>
  ELSE IF StrLess(x, Head(seq)) THEN <<x>> \o seq
       ELSE <<Head(seq)>> \o InsertSorted(Tail(seq), x)

\* Array.prototype.sort() on a list of strings
RECURSIVE Sort(_)
Sort(seq) == IF seq = <<>> THEN <<>> ELSE InsertSorted(Sort(Tail(seq)), Head(seq))

\* the list as it is, duplicates kept
DistinctKeepAll(seq) == seq
\* [...new Set(list)]: the first occurrence of every element, in order
RECURSIVE Distinct(_)
Distinct(seq) ==
  IF seq = <<>> THEN <<>>
  ELSE LET front == Distinct(SubSeq(seq, 1, Len(seq) - 1))
           last == seq[Len(seq)]
       IN IF \E i \in 1..Len(front) : front[i] = last THEN front
          ELSE Append(front, last)

Range(seq) == {seq[i] : i \in 1..Len(seq)}

(***************************************************************************)
(* The datastore: table "episodes", one row per id (primary key)           *)
(***************************************************************************)
IdPool == <<"ep-a", "ep-b", "ep-c", "ep-d">>
Ids == {IdPool[i] : i \in 1..MaxEpisodes}
UnknownId == "does-not-exist"
Statuses == {"completed", "draft"}
\* canonical category labels as stored ("new" and "popular" are never stored)
Labels == {"Health", "health", "Business & Economy", "R$&D"}

\* the rows of the table
Rows(d) == {d[i][1] : i \in {j \in DOMAIN d : d[j] # None}}

\* the filter on the status left out
EqStatusAny(S) == S
\* .eq('status', 'completed')
EqStatusCompleted(S) == {r \in S : r.status = "completed"}
\* .eq('id', id)
EqId(S, id) == {r \in S : r.id = id}
\* .not('category', 'is', null)
NotCategoryNull(S) == {r \in S : r.category # None}

\* the lists that hold every row of S once
Orders(S) ==
  {o \in [1..Cardinality(S) -> S] : \A i, j \in 1..Cardinality(S) : i # j => o[i] # o[j]}
\* .order('created_at', { ascending: false }): rows of equal created_at come
\* in an order the datastore chooses
OrderCreatedAtDesc(S) ==
  {o \in Orders(S) : \A i, j \in 1..Len(o) : i < j => o[i].created_at >= o[j].created_at}

\* row -> Episode of fetchEpisodes and fetchEpisodeById
toEpisode(row) ==
  [id |-> row.id,
   title |-> row.title,
   description |-> row.excerpt,
   createdAt |-> row.created_at,
   category |-> row.category,
   fullDescription |-> OrElse(row.description, OrElse(row.full_description, None))]

\* the rows that the query of fetchEpisodes selects, in each order in which
\* the datastore may return them
EpisodeRows(d) == OrderCreatedAtDesc(EqStatusCompleted(Rows(d)))

\* fetchEpisodes(): ok is whether the read succeeds, order the rows that the
\* datastore returns
fetchEpisodes(ok, order) ==
  IF ~ok THEN [threw |-> TRUE, value |-> <<>>]
  ELSE [threw |-> FALSE, value |-> [i \in 1..Len(order) |-> toEpisode(order[i])]]

\* the row of that id whatever its status
fetchEpisodeByIdAnyStatus(d, id, ok) ==
  LET sel == EqId(Rows(d), id)
  IN IF ~ok \/ Cardinality(sel) # 1 THEN None
     ELSE Some(toEpisode(CHOOSE r \in sel : TRUE))
\* fetchEpisodeById(id): .single() is an error unless exactly one row is
\* selected; every error gives null
fetchEpisodeById(d, id, ok) ==
  LET sel == EqStatusCompleted(EqId(Rows(d), id))
  IN IF ~ok \/ Cardinality(sel) # 1 THEN None
     ELSE Some(toEpisode(CHOOSE r \in sel : TRUE))

\* fetchCategories(): order is the rows in the order in which they come back
fetchCategories(ok, order) ==
  IF ~ok THEN [threw |-> TRUE, value |-> <<>>]
  ELSE LET cats == [i \in 1..Len(order) |-> order[i].category]
           uniq == Distinct(cats)
           kept == SelectSeq(uniq, LAMBDA c : c # None)
       IN [threw |-> FALSE, value |-> Sort([i \in 1..Len(kept) |-> kept[i][1]])]

\* the rows that the query of fetchCategories selects, in each order in which
\* the datastore may return them
CategoryRows(d) == Orders(NotCategoryNull(EqStatusCompleted(Rows(d))))

(***************************************************************************)
(* Calls of the data access layer                                          *)
(***************************************************************************)
Idle == [handler |-> "none"]

FetchEpisodes ==
  /\ resp = Idle
  /\ \E ok \in BOOLEAN :
       \E order \in EpisodeRows(db) :
         resp' = [handler |-> "fetchEpisodes", ok |-> ok,
                  result |-> fetchEpisodes(ok, order)]
  /\ UNCHANGED <<db, server>>

FetchEpisodeById ==
  /\ resp = Idle
  /\ \E ok \in BOOLEAN, id \in Ids \cup {UnknownId} :
       resp' = [handler |-> "fetchEpisodeById", ok |-> ok, id |-> id,
                result |-> fetchEpisodeById(db, id, ok)]
  /\ UNCHANGED <<db, server>>

FetchCategories ==
  /\ resp = Idle
  /\ \E ok \in BOOLEAN :
       \E order \in CategoryRows(db) :
         resp' = [handler |-> "fetchCategories", ok |-> ok,
                  result |-> fetchCategories(ok, order)]
  /\ UNCHANGED <<db, server>>

(***************************************************************************)
(* JSON API handlers                                                       *)
(***************************************************************************)
Methods == {"GET", "OPTIONS", "POST"}

\* /api/categories (CommonJS handler)
CategoriesApi ==
  /\ resp = Idle
  /\ \E method \in Methods, ok \in BOOLEAN :
       \E order \in CategoryRows(db) :
         resp' =
           IF method = "OPTIONS"
           THEN [handler |-> "categoriesApi", method |-> method, ok |-> ok,
                 status |-> 200, hasBody |-> FALSE, success |-> FALSE,
                 hasData |-> FALSE, data |-> <<>>, error |-> "", dbReads |-> 0]
           ELSE IF ~ok
           THEN [handler |-> "categoriesApi", method |-> method, ok |-> ok,
                 status |-> 500, hasBody |-> TRUE, success |-> FALSE,
                 hasData |-> FALSE, data |-> <<>>, error |-> "Failed to fetch categories",
                 dbReads |-> 1]
           ELSE [handler |-> "categoriesApi", method |-> method, ok |-> ok,
                 status |-> 200, hasBody |-> TRUE, success |-> TRUE, hasData |-> TRUE,
                 data |-> Sort(Distinct([i \in 1..Len(order) |-> order[i].category[1]])),
                 error |-> "", dbReads |-> 1]
  /\ UNCHANGED <<db, server>>

\* /api/episodes/[id]
EpisodeByIdApi ==
  /\ resp = Idle
  /\ \E method \in Methods, ok \in BOOLEAN, id \in {None} \cup {Some(i) : i \in Ids \cup {UnknownId}} :
       LET base == [handler |-> "episodeByIdApi", method |-> method, ok |-> ok, id |-> id]
           Json(status, success, data, error, reads) ==
             base @@ [status |-> status, hasBody |-> TRUE, success |-> success,
                      hasData |-> data # None, data |-> data, error |-> error,
                      dbReads |-> reads]
       IN resp' =
            IF method = "OPTIONS"
            THEN base @@ [status |-> 200, hasBody |-> FALSE, success |-> FALSE,
                          hasData |-> FALSE, data |-> None, error |-> "", dbReads |-> 0]
            ELSE IF method # "GET"
            THEN Json(405, FALSE, None, "Method not allowed", 0)
            ELSE IF ~Truthy(id)
            THEN Json(400, FALSE, None, "Episode ID is required", 0)
            ELSE LET episode == fetchEpisodeById(db, id[1], ok)
                 IN IF episode = None
                    THEN Json(404, FALSE, None, "Episode not found", 1)
                    ELSE Json(200, TRUE, episode, "", 1)
  /\ UNCHANGED <<db, server>>

\* what the JSON handlers of src/api send: res.status(200).end() for OPTIONS,
\* else res.status(status).json(...) with { success, data } or { success, error }
apiEnd(reads) ==
  [status |-> 200, hasBody |-> FALSE, success |-> FALSE, hasData |-> FALSE,
   data |-> <<>>, error |-> "", dbReads |-> reads]
apiData(data, reads) ==
  [status |-> 200, hasBody |-> TRUE, success |-> TRUE, hasData |-> TRUE,
   data |-> data, error |-> "", dbReads |-> reads]
apiError(status, error, reads) ==
  [status |-> status, hasBody |-> TRUE, success |-> FALSE, hasData |-> FALSE,
   data |-> <<>>, error |-> error, dbReads |-> reads]

\* the catch block answering without a status
listApiFailure200(method, fetched, failure) ==
  IF method = "OPTIONS" THEN apiEnd(0)
  ELSE IF method # "GET" THEN apiError(405, "Method not allowed", 0)
  ELSE IF fetched.threw THEN apiError(200, failure, 1)
  ELSE apiData(fetched.value, 1)
\* the handler of a list endpoint: fetched is what the read of the data
\* access layer gave, failure the message of the catch block
listApi(method, fetched, failure) ==
  IF method = "OPTIONS" THEN apiEnd(0)
  ELSE IF method # "GET" THEN apiError(405, "Method not allowed", 0)
  ELSE IF fetched.threw THEN apiError(500, failure, 1)
  ELSE apiData(fetched.value, 1)

\* /api/episodes
EpisodesApi ==
  /\ resp = Idle
  /\ \E method \in Methods, ok \in BOOLEAN :
       \E order \in EpisodeRows(db) :
         resp' = [handler |-> "episodesApi", method |-> method, ok |-> ok]
                   @@ listApi(method, fetchEpisodes(ok, order), "Failed to fetch episodes")
  /\ UNCHANGED <<db, server>>

\* /api/categories (src/api/categories.ts)
CategoriesApiTs ==
  /\ resp = Idle
  /\ \E method \in Methods, ok \in BOOLEAN :
       \E order \in CategoryRows(db) :
         resp' = [handler |-> "categoriesApiTs", method |-> method, ok |-> ok]
                   @@ listApi(method, fetchCategories(ok, order), "Failed to fetch categories")
  /\ UNCHANGED <<db, server>>

\* the response is sent and the function is free for the next request
End ==
  /\ resp # Idle
  /\ resp' = Idle
  /\ UNCHANGED <<db, server>>

(***************************************************************************)
(* The Express server (server.js): getEpisodes and its cache               *)
(*                                                                         *)
(* The clock is Date.now(), in milliseconds; it is observed every TickMs.   *)
(* A call of getEpisodes runs in two pieces, the code up to the await and  *)
(* the code after it; between the two the datastore answers the query.     *)
(* Calls of several requests interleave at the await.                      *)
(***************************************************************************)
\* the number of instants at which the clock is observed
MaxClock == 4
CACHE_TTL == 5 * 60 * 1000
\* the time between two observed instants: an entry is valid at the ages 0
\* and TickMs and expired from the age 2 * TickMs = CACHE_TTL on
TickMs == CACHE_TTL \div 2

\* the requests that are served at the same time
Callers == {"c1", "c2"}
IdleCall == [pc |-> "idle"]

\* the server after it started: nothing cached, no request in progress
ServerStarted ==
  /\ clock = TickMs
  /\ episodesCache = None
  /\ cacheTimestamp = None
  /\ cacheReadAt = None
  /\ calls = [c \in Callers |-> IdleCall]

\* row -> episode of fetchEpisodesFromDB (the cover_url column is not modelled)
toServerEpisode(row) ==
  [id |-> row.id,
   title |-> row.title,
   description |-> row.excerpt,
   createdAt |-> row.created_at,
   category |-> row.category]

\* fetchEpisodesFromDB(): ok is whether the read succeeds, order the rows
\* that the datastore returns
fetchEpisodesFromDB(ok, order) ==
  IF ~ok THEN [threw |-> TRUE, value |-> <<>>]
  ELSE [threw |-> FALSE, value |-> [i \in 1..Len(order) |-> toServerEpisode(order[i])]]

\* the cache counted as valid up to and including the age CACHE_TTL
cacheValidInclusive(cache, timestamp, now) ==
  /\ cache # None
  /\ timestamp # None /\ timestamp[1] # 0
  /\ (now - timestamp[1]) <= CACHE_TTL
\* episodesCache && cacheTimestamp && (now - cacheTimestamp) < CACHE_TTL
\* (an empty list is truthy, the timestamp 0 is not)
cacheValid(cache, timestamp, now) ==
  /\ cache # None
  /\ timestamp # None /\ timestamp[1] # 0
  /\ (now - timestamp[1]) < CACHE_TTL

\* res.json of app.get('/api/episodes') and what the call did: cached is
\* cacheTimestamp && (Date.now() - cacheTimestamp) < CACHE_TTL, fromCache
\* whether getEpisodes returned before the await, readAt when the list that
\* is sent was read from the datastore
EpisodesJson(now, list, cached, fromCache, readAt, reads) ==
  [pc |-> "done", now |-> now, status |-> 200, success |-> TRUE, data |-> Some(list),
   cached |-> cached,
   error |-> None, fromCache |-> fromCache, readAt |-> readAt, dbReads |-> reads]
\* the cached list sent when the refresh failed
EpisodesServedStale(now) ==
  [pc |-> "done", now |-> now, status |-> 200, success |-> TRUE, data |-> episodesCache,
   cached |-> FALSE, error |-> None,
   fromCache |-> TRUE, readAt |-> cacheReadAt, dbReads |-> 1]
\* the catch block of app.get('/api/episodes')
EpisodesFailed(now) ==
  [pc |-> "done", now |-> now, status |-> 500, success |-> FALSE, data |-> None,
   cached |-> FALSE, error |-> Some("Failed to fetch episodes"),
   fromCache |-> FALSE, readAt |-> None, dbReads |-> 1]

\* GET /api/episodes up to the await of getEpisodes: a valid cache is
\* returned at once, otherwise the query is sent to the datastore
CallGetEpisodes(c) ==
  /\ calls[c].pc = "idle"
  /\ LET now == clock
     IN IF cacheValid(episodesCache, cacheTimestamp, now)
        THEN calls' = [calls EXCEPT ![c] =
                         EpisodesJson(now, episodesCache[1],
                                      cacheValid(episodesCache, cacheTimestamp, clock),
                                      TRUE, cacheReadAt, 0)]
        ELSE calls' = [calls EXCEPT ![c] = [pc |-> "fetching", now |-> now, answer |-> None]]
  /\ UNCHANGED <<db, resp, clock, episodesCache, cacheTimestamp, cacheReadAt>>

\* the datastore answers the query of a call: with the completed rows as they
\* are now, or with an error
DatastoreAnswers(c) ==
  /\ calls[c].pc = "fetching" /\ calls[c].answer = None
  /\ \E ok \in BOOLEAN, order \in EpisodeRows(db) :
       calls' = [calls EXCEPT ![c].answer =
                   Some(fetchEpisodesFromDB(ok, order) @@ [readAt |-> clock])]
  /\ UNCHANGED <<db, resp, clock, episodesCache, cacheTimestamp, cacheReadAt>>

\* the timestamp taken when the list is stored, not when the call began
ResumeStampingLate(c) ==
  /\ calls[c].pc = "fetching" /\ calls[c].answer # None
  /\ LET answer == calls[c].answer[1]
         now == calls[c].now
     IN IF answer.threw
        THEN /\ calls' = [calls EXCEPT ![c] = EpisodesFailed(now)]
             /\ UNCHANGED <<episodesCache, cacheTimestamp, cacheReadAt>>
        ELSE /\ episodesCache' = Some(answer.value)
             /\ cacheTimestamp' = Some(clock)
             /\ cacheReadAt' = Some(answer.readAt)
             /\ calls' = [calls EXCEPT ![c] =
                            EpisodesJson(now, answer.value,
                                         cacheValid(Some(answer.value), Some(clock), clock),
                                         FALSE, Some(answer.readAt), 1)]
  /\ UNCHANGED <<db, resp, clock>>
\* the store skipped when a call that began later has already stored
ResumeKeepingNewer(c) ==
  /\ calls[c].pc = "fetching" /\ calls[c].answer # None
  /\ LET answer == calls[c].answer[1]
         now == calls[c].now
     IN IF answer.threw
        THEN /\ calls' = [calls EXCEPT ![c] = EpisodesFailed(now)]
             /\ UNCHANGED <<episodesCache, cacheTimestamp, cacheReadAt>>
        ELSE /\ IF cacheTimestamp # None /\ cacheTimestamp[1] > now
                THEN UNCHANGED <<episodesCache, cacheTimestamp, cacheReadAt>>
                ELSE /\ episodesCache' = Some(answer.value)
                     /\ cacheTimestamp' = Some(now)
                     /\ cacheReadAt' = Some(answer.readAt)
             /\ calls' = [calls EXCEPT ![c] =
                            EpisodesJson(now, answer.value,
                                         cacheValid(Some(answer.value), Some(now), clock),
                                         FALSE, Some(answer.readAt), 1)]
  /\ UNCHANGED <<db, resp, clock>>
\* getEpisodes after the await, and the rest of the route handler: the list
\* and the timestamp of the call are stored and the list is sent; an error
\* is thrown before anything is stored
ResumeGetEpisodes(c) ==
  /\ calls[c].pc = "fetching" /\ calls[c].answer # None
  /\ LET answer == calls[c].answer[1]
         now == calls[c].now
     IN IF answer.threw
        THEN /\ calls' = [calls EXCEPT ![c] = EpisodesFailed(now)]
             /\ UNCHANGED <<episodesCache, cacheTimestamp, cacheReadAt>>
        ELSE /\ episodesCache' = Some(answer.value)
             /\ cacheTimestamp' = Some(now)
             /\ cacheReadAt' = Some(answer.readAt)
             /\ calls' = [calls EXCEPT ![c] =
                            EpisodesJson(now, answer.value,
                                         cacheValid(Some(answer.value), Some(now), clock),
                                         FALSE, Some(answer.readAt), 1)]
  /\ UNCHANGED <<db, resp, clock>>

\* the response was sent, the request is over
Return(c) ==
  /\ calls[c].pc = "done"
  /\ calls' = [calls EXCEPT ![c] = IdleCall]
  /\ UNCHANGED <<db, resp, clock, episodesCache, cacheTimestamp, cacheReadAt>>

\* time passes
Tick ==
  /\ clock < MaxClock * TickMs
  /\ clock' = clock + TickMs
  /\ UNCHANGED <<db, resp, episodesCache, cacheTimestamp, cacheReadAt, calls>>

\* the episodes that are published and withdrawn while the server runs, and
\* their records: the second episode is the newer one
ServerIds == {IdPool[1], IdPool[2]}
ServerRows(id) ==
  [id : {id}, status : {"completed"}, title : {"Plain title"}, excerpt : {None},
   description : {None}, full_description : {None},
   created_at : {IF id = IdPool[1] THEN 1 ELSE 2},
   category : {None}]

\* an episode is published or withdrawn
DatastoreChanges ==
  /\ \E id \in ServerIds :
       \E r \in {None} \cup {Some(row) : row \in ServerRows(id)} :
         /\ db[id] # r
         /\ db' = [db EXCEPT ![id] = r]
  /\ UNCHANGED <<resp, server>>

InitServer ==
  /\ db \in {d \in [Ids -> {None} \cup UNION {{Some(r) : r \in ServerRows(id)} : id \in ServerIds}] :
               \A id \in Ids : d[id] # None => d[id][1].id = id}
  /\ resp = Idle
  /\ ServerStarted

NextServer ==
  \/ \E c \in Callers : CallGetEpisodes(c)
  \/ \E c \in Callers : DatastoreAnswers(c)
  \/ \E c \in Callers : ResumeGetEpisodes(c)
  \/ \E c \in Callers : Return(c)
  \/ Tick
  \/ DatastoreChanges

SpecServer == InitServer /\ [][NextServer]_vars

(***************************************************************************)
(* String.prototype.replace with a regular expression without the g flag   *)
(* and a replacement string                                                *)
(***************************************************************************)
\* the positions at which the literal text lit occurs in s
Occ(s, lit) ==
  {i \in 1..(Len(s) - Len(lit) + 1) :
     SubSeq(s, i, i) = SubSeq(lit, 1, 1) /\ SubSeq(s, i, i + Len(lit) - 1) = lit}

\* The regular expressions of the renderers have one of two shapes:
\*   /pre[^c]*post/  where post begins with the character c, as in
\*                   /<meta property="og:title" content="[^"]*">/ and
\*                   /<title>[^<]*<\/title>/;
\*   /pre/           a literal text (stop = "").
\* Because post begins with c, the run [^c]* of a match that starts at p can
\* only end at the first c after pre.
TagPattern(pre) == [pre |-> pre, stop |-> "\"", post |-> "\">"]
TitlePattern == [pre |-> "<title>", stop |-> "<", post |-> "</title>"]
LiteralPattern(lit) == [pre |-> lit, stop |-> "", post |-> ""]

\* the last position of the match of pat that starts at p, 0 if there is none
MatchEnd(s, pat, p) ==
  IF pat.stop = "" THEN p + Len(pat.pre) - 1
  ELSE LET from == p + Len(pat.pre)
           stops == {q \in from..Len(s) : At(s, q) = pat.stop}
       IN IF stops = {} THEN 0
          ELSE IF SubSeq(s, Min(stops), Min(stops) + Len(pat.post) - 1) = pat.post
               THEN Min(stops) + Len(pat.post) - 1
               ELSE 0

\* the leftmost match of pat in s as <<first, last>>, <<0, 0>> if none
FirstMatch(s, pat) ==
  LET starts == {p \in Occ(s, pat.pre) : MatchEnd(s, pat, p) # 0}
  IN IF starts = {} THEN <<0, 0>> ELSE <<Min(starts), MatchEnd(s, pat, Min(starts))>>

\* the replacement text inserted as it is, "$" patterns not expanded
ExpandVerbatim(r, matched, before, after) == r
\* The replacement string is expanded: "$$" gives "$", "$&" the matched text,
\* "$'" the text after the match. ("$`", the text before the match, cannot be
\* written in a TLA+ string and occurs in no input of the model; "$1".."$99"
\* and "$<" stay as they are, the expressions have no groups.)
RECURSIVE ExpandReplacement(_, _, _, _)
ExpandReplacement(r, matched, before, after) ==
  LET ds == {i \in 1..(Len(r) - 1) : At(r, i) = "$" /\ At(r, i + 1) \in {"$", "&", "'"}}
  IN IF ds = {} THEN r
     ELSE LET i == Min(ds)
              c == At(r, i + 1)
              sub == IF c = "$" THEN "$" ELSE IF c = "&" THEN matched ELSE after
          IN SubSeq(r, 1, i - 1) \o sub
               \o ExpandReplacement(SubSeq(r, i + 2, Len(r)), matched, before, after)

\* s.replace(pat, r)
jsReplace(s, pat, r) ==
  LET m == FirstMatch(s, pat)
  IN IF m[1] = 0 THEN s
     ELSE LET before == SubSeq(s, 1, m[1] - 1)
              matched == SubSeq(s, m[1], m[2])
              after == SubSeq(s, m[2] + 1, Len(s))
          IN before \o ExpandReplacement(r, matched, before, after) \o after

\* html = html.replace(pat, r) for every <<pat, r>> of steps from the k-th on,
\* one assignment after the other: h is the text after the k-th assignment
RECURSIVE replaceEach(_, _, _)
replaceEach(s, steps, k) ==
  IF k > Len(steps) THEN s
  ELSE CHOOSE out \in {replaceEach(h, steps, k + 1) :
                         h \in {jsReplace(s, steps[k][1], steps[k][2])}} : TRUE

(***************************************************************************)
(* The static shell public/index.html and its readers                      *)
(***************************************************************************)
Shell == "<!DOCTYPE html>\n<html lang=\"en\">\n<head>\n<meta charset=\"UTF-8\">\n<title>Angle</title>\n<meta name=\"description\" content=\"Stories worth listening.\">\n<meta property=\"og:type\" content=\"website\">\n<meta property=\"og:url\" content=\"https://newsangle.co/\">\n<meta property=\"og:title\" content=\"Angle\">\n<meta property=\"og:description\" content=\"Stories worth listening.\">\n<meta property=\"og:image\" content=\"https://newsangle.co/api/og-image\">\n<meta property=\"og:image:width\" content=\"1200\">\n<meta property=\"og:image:height\" content=\"630\">\n<meta property=\"og:site_name\" content=\"Angle\">\n<meta name=\"twitter:card\" content=\"summary_large_image\">\n<meta name=\"twitter:url\" content=\"https://newsangle.co/\">\n<meta name=\"twitter:title\" content=\"Angle\">\n<meta name=\"twitter:description\" content=\"Stories worth listening.\">\n<meta name=\"twitter:image\" content=\"https://newsangle.co/api/og-image\">\n</head>\n<body>\n<div id=\"app\"></div>\n</body>\n</html>\n"

\* which of the three candidate paths of the shell can be read
Readable == {{}, {3}, {1, 2, 3}}

\* the loop over possiblePaths: the content of the first readable path
readShell(readable) == IF readable = {} THEN None ELSE Some(Shell)
\* readFile(join(process.cwd(), 'public', 'index.html')) alone
readShellFirstPath(readable) == IF 1 \in readable THEN Some(Shell) ELSE None

\* the request headers that the renderers read
DefaultHeaders == [proto |-> None, ssl |-> None, host |-> None]
ProxyHeaders == [proto |-> Some("https"), ssl |-> None, host |-> Some("newsangle.co")]
SslHeaders == [proto |-> None, ssl |-> Some("on"), host |-> Some("localhost:3000")]

\* protocol://host of the request
baseUrl(headers) ==
  LET protocol == IF Truthy(headers.proto) THEN headers.proto[1]
                  ELSE IF headers.ssl = Some("on") THEN "https" ELSE "http"
      host == IF Truthy(headers.host) THEN headers.host[1] ELSE "newsangle.co"
  IN protocol \o "://" \o host

(***************************************************************************)
(* Slug resolution and the category renderer                               *)
(***************************************************************************)
SPECIAL_FILTERS == {"new", "popular"}
\* the deny-list without its first entry
EXCLUDED_PATHS_WithoutApi == {"episode", "images", "fonts", "robots.txt", "favicon.ico", "sitemap.xml"}
EXCLUDED_PATHS == {"api", "episode", "images", "fonts", "robots.txt", "favicon.ico", "sitemap.xml"}

\* the "&" of a label dropped instead of spelled "and"
categoryToSlugDropAmp(cat) ==
  ReplaceNotIn(ReplaceIn(ReplaceRuns(toLowerCase(cat), Whitespace, "-"), {"&"}, ""),
               AlphaNum \cup {"-"}, "")
categoryToSlug(cat) ==
  ReplaceNotIn(ReplaceIn(ReplaceRuns(toLowerCase(cat), Whitespace, "-"), {"&"}, "and"),
               AlphaNum \cup {"-"}, "")

\* the candidate side of the partial match
stripLabel(c) ==
  ReplaceNotIn(ReplaceIn(ReplaceRuns(toLowerCase(c), Whitespace, ""), {"&"}, ""), AlphaNum, "")

\* the last label that passes the test instead of the first
FoundAtLast(categories, hits) ==
  IF hits = {} THEN None
  ELSE IF categories[Max(hits)] = "" THEN None ELSE Some(categories[Max(hits)])
\* categories.find(test), then "if (match) return match": an empty label is falsy
FoundAt(categories, hits) ==
  IF hits = {} THEN None
  ELSE IF categories[Min(hits)] = "" THEN None ELSE Some(categories[Min(hits)])

\* the partial match left out
slugToCategoryNoPartial(categories, slug) ==
  LET idx == 1..Len(categories)
      exactMatch == FoundAt(categories, {i \in idx : toLowerCase(categories[i]) = toLowerCase(slug)})
      slugMatch == FoundAt(categories, {i \in idx : categoryToSlug(categories[i]) = toLowerCase(slug)})
  IN IF exactMatch # None THEN exactMatch ELSE slugMatch
slugToCategory(categories, slug) ==
  LET idx == 1..Len(categories)
      exactMatch == FoundAt(categories, {i \in idx : toLowerCase(categories[i]) = toLowerCase(slug)})
      slugMatch == FoundAt(categories, {i \in idx : categoryToSlug(categories[i]) = toLowerCase(slug)})
      normalizedSlug == ReplaceIn(toLowerCase(slug), {"-"}, "")
      partialMatch == FoundAt(categories, {i \in idx : stripLabel(categories[i]) = normalizedSlug})
  IN IF exactMatch # None THEN exactMatch
     ELSE IF slugMatch # None THEN slugMatch
     ELSE partialMatch

\* what a renderer sends: kind is "text", "html", "json" or "redirect"
Sent(status, kind, body, location) ==
  [status |-> status, kind |-> kind, body |-> body, location |-> location]

\* the catch block of the renderers of part_001 and of the episode page
catchRender(development, message) ==
  IF development THEN Sent(500, "json", message, "") ELSE Sent(302, "redirect", "", "/")

\* the meta tags and the title that the category renderers rewrite
categoryMetaReplace(html, categoryUrl, title, description, ogImageUrl) ==
  LET Meta(prop, content) == "<meta property=\"" \o prop \o "\" content=\"" \o content \o "\">"
      Name(name, content) == "<meta name=\"" \o name \o "\" content=\"" \o content \o "\">"
  IN replaceEach(html,
       <<<<LiteralPattern(Meta("og:type", "website")), Meta("og:type", "website")>>,
         <<TagPattern("<meta property=\"og:url\" content=\""), Meta("og:url", categoryUrl)>>,
         <<TagPattern("<meta property=\"og:title\" content=\""), Meta("og:title", title)>>,
         <<TagPattern("<meta property=\"og:description\" content=\""), Meta("og:description", description)>>,
         <<TagPattern("<meta property=\"og:image\" content=\""), Meta("og:image", ogImageUrl)>>,
         <<LiteralPattern(Name("twitter:card", "summary_large_image")),
           Name("twitter:card", "summary_large_image")>>,
         <<TagPattern("<meta name=\"twitter:url\" content=\""), Name("twitter:url", categoryUrl)>>,
         <<TagPattern("<meta name=\"twitter:title\" content=\""), Name("twitter:title", title)>>,
         <<TagPattern("<meta name=\"twitter:description\" content=\""),
           Name("twitter:description", description)>>,
         <<TagPattern("<meta name=\"twitter:image\" content=\""), Name("twitter:image", ogImageUrl)>>,
         <<TitlePattern, "<title>" \o title \o "</title>">>>>, 1)

\* the category of the request: req.query.category, else taken from the path
requestCategory(req) ==
  IF Truthy(req.query) THEN req.query
  ELSE IF Len(req.pathParts) >= 3 /\ req.pathParts[1] = "api" /\ req.pathParts[2] = "render"
       THEN Some(req.pathParts[3])
       ELSE IF Len(req.pathParts) = 1 THEN Some(req.pathParts[1]) ELSE None

\* the validation of the category in part_001: the matched label and whether
\* the category is valid
categoryVerdict(categories, category) ==
  LET categorySlug == toLowerCase(category)
      matchingCategory == slugToCategory(categories, categorySlug)
  IN [matching |-> matchingCategory,
      valid |-> matchingCategory # None \/ categorySlug \in SPECIAL_FILTERS]

\* The category renderer (part_001). cats is what fetchCategories gives if
\* it is called, html what the loop over the shell paths reads, development whether
\* VERCEL_ENV or NODE_ENV is "development". The fields after location record
\* the locals of the handler: the category, the number of datastore reads,
\* the outcomes of the two reads that the environment holds ready, the
\* category list, matchingCategory, isValidCategory and categoryLabel.
renderCategory(req, cats, html, development) ==
  LET category == requestCategory(req)
      Locals(reads, list, matching, valid, label) ==
        [handler |-> "renderCategory", category |-> category, dbReads |-> reads,
         fetchThrew |-> cats.threw, shellRead |-> html # None,
         categories |-> list, matchingCategory |-> matching, valid |-> valid, label |-> label]
  IN IF ~Truthy(category)
     THEN Sent(400, "text", "Category is required", "") @@ Locals(0, <<>>, None, FALSE, "")
     ELSE IF toLowerCase(category[1]) \in EXCLUDED_PATHS
     THEN Sent(404, "text", "Not Found", "") @@ Locals(0, <<>>, None, FALSE, "")
     ELSE IF cats.threw
     THEN catchRender(development, "upstream") @@ Locals(1, <<>>, None, FALSE, "")
     ELSE
       LET categories == cats.value
           categorySlug == toLowerCase(category[1])
           matchingCategory == categoryVerdict(categories, category[1]).matching
           isValidCategory == categoryVerdict(categories, category[1]).valid
           displayCategory == IF Truthy(matchingCategory) THEN matchingCategory[1] ELSE category[1]
           categoryLabel == IF displayCategory = "new" THEN "New"
                            ELSE IF displayCategory = "popular" THEN "Popular"
                            ELSE displayCategory
           categoryUrl == baseUrl(req.headers) \o "/" \o categorySlug
           ogImageUrl == baseUrl(req.headers) \o "/api/og-image/category/" \o categorySlug
           title == categoryLabel \o " Stories | Angle"
           description == IF category[1] = "new" THEN "Latest stories worth listening."
                          ELSE IF category[1] = "popular" THEN "Popular stories worth listening."
                          ELSE categoryLabel \o " stories worth listening."
       IN IF ~isValidCategory
          THEN Sent(302, "redirect", "", "/") @@ Locals(1, categories, matchingCategory, FALSE, "")
          ELSE IF ~Truthy(html)
          THEN catchRender(development, "Could not find index.html")
                 @@ Locals(1, categories, matchingCategory, TRUE, "")
          ELSE Sent(200, "html",
                    categoryMetaReplace(html[1], categoryUrl, title, description, ogImageUrl), "")
                 @@ Locals(1, categories, matchingCategory, TRUE, categoryLabel)

\* includes(): membership in a list
Includes(list, x) == \E i \in 1..Len(list) : list[i] = x

\* the validation of the category in api/render/[category].ts
categoryVerdictBasic(categories, category) ==
  [matching |-> IF Includes(categories, category) THEN Some(category) ELSE None,
   valid |-> Includes(categories, category) \/ category \in SPECIAL_FILTERS]

\* The first category renderer (api/render/[category].ts): the category comes
\* from req.query alone and is compared as it is; every failure redirects.
renderCategoryBasic(req, cats, html) ==
  LET category == req.query
      Locals(reads, list, matching, valid, label) ==
        [handler |-> "renderCategoryBasic", category |-> category, dbReads |-> reads,
         fetchThrew |-> cats.threw, shellRead |-> html # None,
         categories |-> list, matchingCategory |-> matching, valid |-> valid, label |-> label]
  IN IF ~Truthy(category)
     THEN Sent(400, "text", "Category is required", "") @@ Locals(0, <<>>, None, FALSE, "")
     ELSE IF toLowerCase(category[1]) \in EXCLUDED_PATHS
     THEN Sent(404, "text", "Not Found", "") @@ Locals(0, <<>>, None, FALSE, "")
     ELSE IF cats.threw
     THEN Sent(302, "redirect", "", "/") @@ Locals(1, <<>>, None, FALSE, "")
     ELSE
       LET categories == cats.value
           matching == categoryVerdictBasic(categories, category[1]).matching
           isValidCategory == categoryVerdictBasic(categories, category[1]).valid
           categoryLabel == IF category[1] = "new" THEN "New"
                            ELSE IF category[1] = "popular" THEN "Popular"
                            ELSE UpperChar(At(category[1], 1)) \o SubSeq(category[1], 2, Len(category[1]))
           categoryUrl == baseUrl(req.headers) \o "/" \o category[1]
           ogImageUrl == baseUrl(req.headers) \o "/api/og-image/category/" \o category[1]
           title == categoryLabel \o " Stories | Angle"
           description == IF category[1] = "new" THEN "Latest stories worth listening."
                          ELSE IF category[1] = "popular" THEN "Popular stories worth listening."
                          ELSE categoryLabel \o " stories worth listening."
       IN IF ~isValidCategory
          THEN Sent(302, "redirect", "", "/") @@ Locals(1, categories, matching, FALSE, "")
          ELSE IF ~Truthy(html)
          THEN Sent(302, "redirect", "", "/") @@ Locals(1, categories, matching, TRUE, "")
          ELSE Sent(200, "html",
                    categoryMetaReplace(html[1], categoryUrl, title, description, ogImageUrl), "")
                 @@ Locals(1, categories, matching, TRUE, categoryLabel)

\* the path segments that are requested
Segments ==
  {"health", "Health", "HEALTH", "business-economy", "Business-Economy",
   "business_economy", "Business & Economy", "r$&d", "new", "NEW", "popular",
   "api", "Sitemap.XML", "sports", "business-and-economy", "randd", "businesseconomy"}

CategoryRequests ==
  {[query |-> Some(seg), pathParts |-> <<>>, headers |-> DefaultHeaders] : seg \in Segments}
    \cup {[query |-> None, pathParts |-> <<"health">>, headers |-> ProxyHeaders],
          [query |-> None, pathParts |-> <<"api", "render", "popular">>, headers |-> SslHeaders],
          [query |-> None, pathParts |-> <<"api", "render">>, headers |-> DefaultHeaders],
          [query |-> Some(""), pathParts |-> <<>>, headers |-> DefaultHeaders]}

\* what fetchCategories can give on the datastore d
CategoryFetches(d) ==
  {fetchCategories(ok, order) : ok \in BOOLEAN, order \in CategoryRows(d)}

\* GET /{category}, rewritten to the category renderer
RenderCategory ==
  /\ resp = Idle
  /\ \E req \in CategoryRequests, cats \in CategoryFetches(db) :
       \E html \in {readShell(readable) : readable \in Readable} :
         \/ resp' = renderCategory(req, cats, html, FALSE) @@ [development |-> FALSE]
         \/ /\ cats.threw \/ html = None
            /\ resp' = renderCategory(req, cats, html, TRUE) @@ [development |-> TRUE]
  /\ UNCHANGED <<db, server>>

RenderCategoryBasic ==
  /\ resp = Idle
  /\ \E req \in CategoryRequests, cats \in CategoryFetches(db) :
       \E html \in {readShellFirstPath(readable) : readable \in Readable} :
         \/ resp' = renderCategoryBasic(req, cats, html) @@ [development |-> FALSE]
         \/ /\ cats.threw \/ html = None
            /\ resp' = renderCategoryBasic(req, cats, html) @@ [development |-> TRUE]
  /\ UNCHANGED <<db, server>>

\* the datastore contents of the category pages
\* A record that is not completed is left out of every read of the categories
\* whatever its label: one such record per id stands for all of them.
CategoryPageRows(id) ==
  {r \in [id : {id}, status : Statuses, title : {"Plain title"}, excerpt : {None},
           description : {None}, full_description : {None}, created_at : {1},
           category : {Some(l) : l \in Labels}] :
     r.status = "completed" \/ r.category = Some("Health")}

InitCategory ==
  /\ db \in {d \in [Ids -> {None} \cup UNION {{Some(r) : r \in CategoryPageRows(id)} : id \in Ids}] :
               \A id \in Ids : d[id] # None => d[id][1].id = id}
  /\ resp = Idle
  /\ ServerStarted

NextCategory ==
  \/ RenderCategory
  \/ RenderCategoryBasic
  \/ End

SpecCategory == InitCategory /\ [][NextCategory]_vars

\* datastores in which episodes are tagged with labels that spell a reserved path
ReservedLabels == {"Health", "api", "Sitemap.xml"}

ReservedPageRows(id) ==
  {r \in [id : {id}, status : Statuses, title : {"Plain title"}, excerpt : {None},
           description : {None}, full_description : {None}, created_at : {1},
           category : {Some(l) : l \in ReservedLabels}] :
     r.status = "completed" \/ r.category = Some("Health")}

InitReserved ==
  /\ db \in {d \in [Ids -> {None} \cup UNION {{Some(r) : r \in ReservedPageRows(id)} : id \in Ids}] :
               \A id \in Ids : d[id] # None => d[id][1].id = id}
  /\ resp = Idle
  /\ ServerStarted

SpecReserved == InitReserved /\ [][NextCategory]_vars

\* datastores in which one segment matches several labels by different rules
OrderLabels == {"Business & Economy", "Business Economy", "business-economy"}

OrderPageRows(id) ==
  {r \in [id : {id}, status : Statuses, title : {"Plain title"}, excerpt : {None},
           description : {None}, full_description : {None}, created_at : {1},
           category : {Some(l) : l \in OrderLabels}] :
     r.status = "completed" \/ r.category = Some("Business Economy")}

InitOrder ==
  /\ db \in {d \in [Ids -> {None} \cup UNION {{Some(r) : r \in OrderPageRows(id)} : id \in Ids}] :
               \A id \in Ids : d[id] # None => d[id][1].id = id}
  /\ resp = Idle
  /\ ServerStarted

SpecOrder == InitOrder /\ [][NextCategory]_vars

(***************************************************************************)
(* The episode renderer                                                    *)
(***************************************************************************)
\* s.replace(/c/g, r) for one character c
ReplaceChar(s, c, r) == ReplaceIn(s, {c}, r)

escapeHtml(str) ==
  ReplaceChar(ReplaceChar(ReplaceChar(ReplaceChar(ReplaceChar(str,
    "&", "&amp;"), "<", "&lt;"), ">", "&gt;"), "\"", "&quot;"), "'", "&#039;")

\* the meta tags and the title that the episode renderer rewrites
episodeMetaReplace(html, episodeUrl, ogImageUrl, escapedTitle, escapedDescription, escapedFullTitle) ==
  LET Meta(prop, content) == "<meta property=\"" \o prop \o "\" content=\"" \o content \o "\">"
      Name(name, content) == "<meta name=\"" \o name \o "\" content=\"" \o content \o "\">"
  IN replaceEach(html,
       <<<<TagPattern("<meta property=\"og:type\" content=\""), Meta("og:type", "article")>>,
         <<TagPattern("<meta property=\"og:url\" content=\""), Meta("og:url", episodeUrl)>>,
         <<TagPattern("<meta property=\"og:title\" content=\""), Meta("og:title", escapedTitle)>>,
         <<TagPattern("<meta property=\"og:description\" content=\""),
           Meta("og:description", escapedDescription)>>,
         <<TagPattern("<meta property=\"og:image\" content=\""), Meta("og:image", ogImageUrl)>>,
         <<TagPattern("<meta property=\"og:image:width\" content=\""), Meta("og:image:width", "1200")>>,
         <<TagPattern("<meta property=\"og:image:height\" content=\""), Meta("og:image:height", "630")>>,
         <<TagPattern("<meta name=\"twitter:card\" content=\""),
           Name("twitter:card", "summary_large_image")>>,
         <<TagPattern("<meta name=\"twitter:url\" content=\""), Name("twitter:url", episodeUrl)>>,
         <<TagPattern("<meta name=\"twitter:title\" content=\""), Name("twitter:title", escapedTitle)>>,
         <<TagPattern("<meta name=\"twitter:description\" content=\""),
           Name("twitter:description", escapedDescription)>>,
         <<TagPattern("<meta name=\"twitter:image\" content=\""), Name("twitter:image", ogImageUrl)>>,
         <<TitlePattern, "<title>" \o escapedFullTitle \o "</title>">>>>, 1)

\* the episode id of the request: req.query.id, else taken from the path,
\* else from the query string of the URL
requestEpisodeId(req) ==
  IF Truthy(req.query) THEN req.query
  ELSE IF /\ Len(req.pathParts) >= 4
          /\ req.pathParts[1] = "api" /\ req.pathParts[2] = "render" /\ req.pathParts[3] = "episode"
       THEN Some(req.pathParts[4])
       ELSE IF Len(req.pathParts) = 2 /\ req.pathParts[1] = "episode"
            THEN Some(req.pathParts[2])
            ELSE req.search

\* The episode renderer (api/render/episode/[id].ts). found[id] is what
\* fetchEpisodeById gives for an id, html what the loop over the shell paths
\* reads. The fields after location record the locals of the handler: the
\* id, the number of datastore reads, the episode and whether the shell was
\* readable.
renderEpisode(req, found, html, development) ==
  LET episodeId == requestEpisodeId(req)
      Locals(reads, episode) ==
        [handler |-> "renderEpisode", id |-> episodeId, dbReads |-> reads,
         episode |-> episode, shellRead |-> html # None]
  IN IF ~Truthy(episodeId)
     THEN Sent(400, "text", "Episode ID is required", "") @@ Locals(0, None)
     ELSE
       LET episode == found[episodeId[1]] IN
       IF episode = None
       THEN Sent(302, "redirect", "", "/") @@ Locals(1, None)
       ELSE IF ~Truthy(html)
       THEN catchRender(development, "Could not find index.html") @@ Locals(1, episode)
       ELSE
         LET episodeUrl == baseUrl(req.headers) \o "/episode/" \o episodeId[1]
             ogImageUrl == baseUrl(req.headers) \o "/api/og-image/" \o episodeId[1]
             title == episode[1].title \o " | Angle"
             description == OrElse(episode[1].fullDescription,
                                   OrElse(episode[1].description, Some("Stories worth listening.")))[1]
         IN Sent(200, "html",
                 episodeMetaReplace(html[1], episodeUrl, ogImageUrl, escapeHtml(episode[1].title),
                                    escapeHtml(description), escapeHtml(title)), "")
              @@ Locals(1, episode)

EpisodeRequests ==
  {[query |-> Some(id), pathParts |-> <<>>, search |-> None, headers |-> DefaultHeaders] :
     id \in Ids \cup {UnknownId}}
    \cup {[query |-> None, pathParts |-> <<"episode", IdPool[1]>>, search |-> None, headers |-> ProxyHeaders],
          [query |-> None, pathParts |-> <<"api", "render", "episode", IdPool[1]>>, search |-> None,
           headers |-> SslHeaders],
          [query |-> None, pathParts |-> <<"api", "render">>, search |-> Some(IdPool[1]),
           headers |-> DefaultHeaders],
          [query |-> None, pathParts |-> <<"episode">>, search |-> None, headers |-> DefaultHeaders]}

\* GET /episode/{id}, rewritten to the episode renderer
RenderEpisode ==
  /\ resp = Idle
  /\ \E req \in EpisodeRequests, ok \in BOOLEAN :
       \E html \in {readShell(readable) : readable \in Readable} :
         LET found == [id \in Ids \cup {UnknownId} |-> fetchEpisodeById(db, id, ok)]
         IN \/ resp' = renderEpisode(req, found, html, FALSE)
                         @@ [fetchOk |-> ok, development |-> FALSE]
            \/ /\ ~ok \/ html = None
               /\ resp' = renderEpisode(req, found, html, TRUE)
                            @@ [fetchOk |-> ok, development |-> TRUE]
  /\ UNCHANGED <<db, server>>

\* the titles and descriptions of the episode pages
EpisodeTexts ==
  {[title |-> "Plain title", excerpt |-> None, description |-> None, full_description |-> None],
   [title |-> "Tom & \"Jerry\" <3's>", excerpt |-> Some("Short <b>& 'sweet'</b>"),
    description |-> None, full_description |-> None],
   [title |-> "R$&D Today", excerpt |-> Some("Short"), description |-> Some("Long \"form\" & more"),
    full_description |-> Some("Full")],
   [title |-> "Save $$$ now", excerpt |-> Some(""), description |-> Some(""), full_description |-> None],
   [title |-> "Plain title", excerpt |-> Some("Short"), description |-> None,
    full_description |-> Some("Full text")],
   [title |-> "Plain title", excerpt |-> Some("Costs $$ a lot"), description |-> None,
    full_description |-> None]}

EpisodePageRows(id) ==
  {[id |-> id, status |-> st, title |-> t.title, excerpt |-> t.excerpt,
    description |-> t.description, full_description |-> t.full_description,
    created_at |-> 1, category |-> None] :
     st \in Statuses, t \in EpisodeTexts}

InitEpisode ==
  /\ db \in {d \in [Ids -> {None} \cup UNION {{Some(r) : r \in EpisodePageRows(id)} : id \in Ids}] :
               \A id \in Ids : d[id] # None => d[id][1].id = id}
  /\ resp = Idle
  /\ ServerStarted

NextEpisode ==
  \/ RenderEpisode
  \/ End

SpecEpisode == InitEpisode /\ [][NextEpisode]_vars

(***************************************************************************)
(* The sitemap generator (api/sitemap.ts)                                  *)
(***************************************************************************)
BASE_URL == "https://newsangle.co"

\* the text that the datastore returns for created_at (a timestamptz, given
\* in UTC), by the instant that created_at stands for
InstantText ==
  <<"2025-01-01T08:30:00+00:00", "2025-01-01T20:15:00+00:00",
    "2025-01-02T03:05:00+00:00", "2025-01-03T23:59:59+00:00">>

\* new Date().toISOString() at the time of a request
Nows == {"2025-02-01T10:00:00.000Z", "2025-02-02T00:00:01.000Z"}

\* new Date(dateString).toISOString().split('T')[0] for a text in UTC
formatDate(dateString) == SubSeq(dateString, 1, Min({i \in 1..Len(dateString) : At(dateString, i) = "T"}) - 1)

\* one <url> element of the template literals
urlEntry(loc, lastmod, changefreq, priority) ==
  "  <url>\n    <loc>" \o loc \o "</loc>\n    <lastmod>" \o lastmod
    \o "</lastmod>\n    <changefreq>" \o changefreq \o "</changefreq>\n    <priority>"
    \o priority \o "</priority>\n  </url>"

\* urls.join('\n')
RECURSIVE JoinLines(_)
JoinLines(urls) ==
  IF urls = <<>> THEN ""
  ELSE IF Len(urls) = 1 THEN urls[1]
  ELSE urls[1] \o "\n" \o JoinLines(Tail(urls))

XmlHead == "<?xml version=\"1.0\" encoding=\"UTF-8\"?>\n<urlset xmlns=\"http://www.sitemaps.org/schemas/sitemap/0.9\">\n"
XmlFoot == "\n</urlset>"

\* the episode entries left out
generateSitemapXMLNoEpisodes(episodes, categories, now) ==
  LET allCategories == <<"new", "popular">> \o categories
      urls == <<urlEntry(BASE_URL \o "/", formatDate(now), "weekly", "1.0")>>
                \o [i \in 1..Len(allCategories) |->
                      urlEntry(BASE_URL \o "/" \o allCategories[i], formatDate(now), "daily", "0.9")]
  IN XmlHead \o JoinLines(urls) \o XmlFoot
generateSitemapXML(episodes, categories, now) ==
  LET allCategories == <<"new", "popular">> \o categories
      urls == <<urlEntry(BASE_URL \o "/", formatDate(now), "weekly", "1.0")>>
                \o [i \in 1..Len(allCategories) |->
                      urlEntry(BASE_URL \o "/" \o allCategories[i], formatDate(now), "daily", "0.9")]
                \o [i \in 1..Len(episodes) |->
                      urlEntry(BASE_URL \o "/episode/" \o episodes[i].id,
                               formatDate(InstantText[episodes[i].createdAt]), "monthly", "0.8")]
  IN XmlHead \o JoinLines(urls) \o XmlFoot

\* the document of the catch block
fallbackSitemap(now) ==
  XmlHead \o urlEntry(BASE_URL \o "/", formatDate(now), "weekly", "1.0") \o XmlFoot

\* the failure of fetchCategories passed on as it is
catchNothing(cats) == cats
\* fetchCategories().catch(() => []): a failure becomes the empty list
catchEmpty(cats) == IF cats.threw THEN [threw |-> FALSE, value |-> <<>>] ELSE cats

\* the catch block answering with an error instead of the fallback document
sitemapHandlerFailing(method, eps, cats, now) ==
  IF method = "OPTIONS"
  THEN [status |-> 200, contentType |-> "", body |-> "", dbReads |-> 0]
  ELSE IF method # "GET"
  THEN [status |-> 405, contentType |-> "text/xml",
        body |-> "<?xml version=\"1.0\" encoding=\"UTF-8\"?><error>Method not allowed</error>",
        dbReads |-> 0]
  ELSE IF eps.threw \/ catchEmpty(cats).threw
  THEN [status |-> 500, contentType |-> "application/xml; charset=utf-8",
        body |-> "", dbReads |-> 2]
  ELSE [status |-> 200, contentType |-> "application/xml; charset=utf-8",
        body |-> generateSitemapXML(eps.value, catchEmpty(cats).value, now),
        dbReads |-> 2]
\* handler: eps and cats are what fetchEpisodes and fetchCategories give,
\* both started by Promise.all; Promise.all rejects when one of its promises
\* does, and the catch block then sends the fallback document
sitemapHandler(method, eps, cats, now) ==
  IF method = "OPTIONS"
  THEN [status |-> 200, contentType |-> "", body |-> "", dbReads |-> 0]
  ELSE IF method # "GET"
  THEN [status |-> 405, contentType |-> "text/xml",
        body |-> "<?xml version=\"1.0\" encoding=\"UTF-8\"?><error>Method not allowed</error>",
        dbReads |-> 0]
  ELSE IF eps.threw \/ catchEmpty(cats).threw
  THEN [status |-> 200, contentType |-> "application/xml; charset=utf-8",
        body |-> fallbackSitemap(now), dbReads |-> 2]
  ELSE [status |-> 200, contentType |-> "application/xml; charset=utf-8",
        body |-> generateSitemapXML(eps.value, catchEmpty(cats).value, now),
        dbReads |-> 2]

\* what fetchEpisodes can give on the datastore d
EpisodeFetches(d) ==
  {fetchEpisodes(ok, order) : ok \in BOOLEAN, order \in EpisodeRows(d)}

\* /api/sitemap and /sitemap.xml
Sitemap ==
  /\ resp = Idle
  /\ \E method \in Methods, now \in Nows :
       \E eps \in EpisodeFetches(db), cats \in CategoryFetches(db) :
         resp' = [handler |-> "sitemap", method |-> method, now |-> now,
                  episodesThrew |-> eps.threw, categoriesThrew |-> cats.threw]
                   @@ sitemapHandler(method, eps, cats, now)
  /\ UNCHANGED <<db, server>>

SitemapLabels == {"Health", "Business & Economy"}

\* A record that is not completed is left out of both reads whatever it holds:
\* one such record per id stands for all of them.
SitemapRows(id) ==
  {r \in [id : {id}, status : Statuses, title : {"Plain title"}, excerpt : {None},
           description : {None}, full_description : {None}, created_at : 1..MaxTime,
           category : {None} \cup {Some(l) : l \in SitemapLabels}] :
     r.status = "completed" \/ (r.created_at = 1 /\ r.category = None)}

InitSitemap ==
  /\ db \in {d \in [Ids -> {None} \cup UNION {{Some(r) : r \in SitemapRows(id)} : id \in Ids}] :
               \A id \in Ids : d[id] # None => d[id][1].id = id}
  /\ resp = Idle
  /\ ServerStarted

NextSitemap ==
  \/ Sitemap
  \/ End

SpecSitemap == InitSitemap /\ [][NextSitemap]_vars

(***************************************************************************)
(* The sitemap handler step by step: Promise.all starts both reads, the    *)
(* datastore answers them in either order and may change in between        *)
(***************************************************************************)
\* the handler up to the await: OPTIONS and other methods are answered at
\* once, GET starts fetchEpisodes and fetchCategories
SitemapStart ==
  /\ resp = Idle
  /\ \E method \in Methods :
       IF method = "GET"
       THEN resp' = [handler |-> "sitemapPending", method |-> method,
                     episodes |-> None, categories |-> None, settled |-> <<>>]
       ELSE \E now \in Nows :
              resp' = [handler |-> "sitemap", method |-> method, now |-> now,
                       episodesThrew |-> FALSE, categoriesThrew |-> FALSE,
                       episodes |-> <<>>, settled |-> <<>>]
                        @@ sitemapHandler(method, fetchEpisodes(TRUE, <<>>),
                                          fetchCategories(TRUE, <<>>), now)
  /\ UNCHANGED <<db, server>>

\* fetchEpisodes settles
EpisodesSettle ==
  /\ resp.handler = "sitemapPending" /\ resp.episodes = None
  /\ \E eps \in EpisodeFetches(db) :
       resp' = [resp EXCEPT !.episodes = Some(eps),
                            !.settled = Append(@, "episodes")]
  /\ UNCHANGED <<db, server>>

\* fetchCategories settles
CategoriesSettle ==
  /\ resp.handler = "sitemapPending" /\ resp.categories = None
  /\ \E cats \in CategoryFetches(db) :
       resp' = [resp EXCEPT !.categories = Some(cats),
                            !.settled = Append(@, "categories")]
  /\ UNCHANGED <<db, server>>

\* the handler after the await: Promise.all is rejected as soon as one of
\* its promises is, and fulfilled when both are
SitemapFinish ==
  /\ resp.handler = "sitemapPending"
  /\ \/ resp.episodes # None /\ resp.episodes[1].threw
     \/ resp.categories # None /\ catchEmpty(resp.categories[1]).threw
     \/ resp.episodes # None /\ resp.categories # None
  /\ \E now \in Nows :
       LET eps == IF resp.episodes = None THEN fetchEpisodes(TRUE, <<>>) ELSE resp.episodes[1]
           cats == IF resp.categories = None THEN fetchCategories(TRUE, <<>>)
                   ELSE resp.categories[1]
       IN resp' = [handler |-> "sitemap", method |-> resp.method, now |-> now,
                   episodesThrew |-> eps.threw, categoriesThrew |-> cats.threw,
                   episodes |-> eps.value, settled |-> resp.settled]
                    @@ sitemapHandler(resp.method, eps, cats, now)
  /\ UNCHANGED <<db, server>>

\* the response was sent
SitemapEnd ==
  /\ resp.handler = "sitemap"
  /\ End

\* the records of the datastore while the sitemap is built
PendingRows(id) ==
  [id : {id}, status : {"completed"}, title : {"Plain title"}, excerpt : {None},
   description : {None}, full_description : {None}, created_at : {1},
   category : {None, Some("Health")}]

\* an episode is published, changed or withdrawn
SitemapDatastoreChanges ==
  /\ \E id \in Ids :
       \E r \in {None} \cup {Some(row) : row \in PendingRows(id)} :
         /\ db[id] # r
         /\ db' = [db EXCEPT ![id] = r]
  /\ UNCHANGED <<resp, server>>

InitSitemapAsync ==
  /\ db \in {d \in [Ids -> {None} \cup UNION {{Some(r) : r \in PendingRows(id)} : id \in Ids}] :
               \A id \in Ids : d[id] # None => d[id][1].id = id}
  /\ resp = Idle
  /\ ServerStarted

NextSitemapAsync ==
  \/ SitemapStart
  \/ EpisodesSettle
  \/ CategoriesSettle
  \/ SitemapFinish
  \/ SitemapEnd
  \/ SitemapDatastoreChanges

SpecSitemapAsync == InitSitemapAsync /\ [][NextSitemapAsync]_vars

(***************************************************************************)
(* The handlers step by step                                               *)
(*                                                                         *)
(* A handler runs in pieces that end at an await or at a return. resp.pc    *)
(* is the piece that runs next and resp.sent the responses that the         *)
(* invocation has sent so far, in order.                                    *)
(***************************************************************************)
\* res.status(status).end(...), .json(...) or res.redirect(status, ...)
send(r, status, kind) == [r EXCEPT !.sent = Append(@, [status |-> status, kind |-> kind])]

\* return: the invocation is over
return(r) == [r EXCEPT !.pc = "end"]

\* the invocation of the handler h is about to run the piece that begins at
\* the program point pc
Pending(h, pc) == resp.handler = h /\ resp.pc = pc

\* the identifiers that the image handlers are asked for
ImageIds == {None, Some("")} \cup {Some(id) : id \in Ids \cup {UnknownId}}

\* api/og-image/[id].ts up to the await of fetchEpisodeById
OgImageStart ==
  /\ resp = Idle
  /\ \E method \in Methods, id \in ImageIds :
       LET r == [handler |-> "ogImage", pc |-> "start", sent |-> <<>>, method |-> method,
                 id |-> id, fetchOk |-> None, episode |-> None,
                 rendered |-> None, defaultRendered |-> None]
       IN resp' = IF method = "OPTIONS" THEN return(send(r, 200, "empty"))
                  ELSE IF method # "GET" THEN return(send(r, 405, "empty"))
                  ELSE IF ~Truthy(id) THEN [r EXCEPT !.pc = "serveDefaultImage"]
                  ELSE [r EXCEPT !.pc = "fetchEpisodeById"]
  /\ UNCHANGED <<db, server>>

\* fetchEpisodeById has answered: no episode, the default image is served
OgImageFetched ==
  /\ Pending("ogImage", "fetchEpisodeById")
  /\ \E ok \in BOOLEAN :
       LET episode == fetchEpisodeById(db, resp.id[1], ok)
       IN resp' = [resp EXCEPT !.fetchOk = Some(ok), !.episode = episode,
                               !.pc = IF episode = None THEN "serveDefaultImage"
                                      ELSE "ImageResponse"]
  /\ UNCHANGED <<db, server>>

\* the image of the episode is composed and sent; a failure is caught and
\* the default image is served
OgImageRendered ==
  /\ Pending("ogImage", "ImageResponse")
  /\ \E rendered \in BOOLEAN :
       resp' = IF rendered
               THEN return(send([resp EXCEPT !.rendered = Some(TRUE)], 200, "episode image"))
               ELSE [resp EXCEPT !.rendered = Some(FALSE), !.pc = "serveDefaultImage"]
  /\ UNCHANGED <<db, server>>

\* the default image with a failure of its composition not caught
serveDefaultImageUncaught ==
  /\ Pending("ogImage", "serveDefaultImage")
  /\ \E rendered \in BOOLEAN :
       resp' = IF rendered
               THEN return(send([resp EXCEPT !.defaultRendered = Some(TRUE)], 200, "default image"))
               ELSE return([resp EXCEPT !.defaultRendered = Some(FALSE)])
  /\ UNCHANGED <<db, server>>
\* serveDefaultImage(res): the default image, or 500 if it cannot be composed
serveDefaultImage ==
  /\ Pending("ogImage", "serveDefaultImage")
  /\ \E rendered \in BOOLEAN :
       resp' = IF rendered
               THEN return(send([resp EXCEPT !.defaultRendered = Some(TRUE)], 200, "default image"))
               ELSE return(send([resp EXCEPT !.defaultRendered = Some(FALSE)], 500, "empty"))
  /\ UNCHANGED <<db, server>>

\* api/og-image/[id].tsx up to the await of fetchEpisodeById: the id is the
\* last part of the path, which is empty when the path ends with "/"
OgImageByIdStart ==
  /\ resp = Idle
  /\ \E id \in ImageIds \ {None} :
       LET r == [handler |-> "ogImageById", pc |-> "start", sent |-> <<>>, method |-> "GET",
                 id |-> id, fetchOk |-> None, episode |-> None,
                 rendered |-> None, defaultRendered |-> None]
       IN resp' = IF ~Truthy(id) THEN return(send(r, 400, "json"))
                  ELSE [r EXCEPT !.pc = "fetchEpisodeById"]
  /\ UNCHANGED <<db, server>>

\* fetchEpisodeById has answered: no episode is answered with 404
OgImageByIdFetched ==
  /\ Pending("ogImageById", "fetchEpisodeById")
  /\ \E ok \in BOOLEAN :
       LET episode == fetchEpisodeById(db, resp.id[1], ok)
           r == [resp EXCEPT !.fetchOk = Some(ok), !.episode = episode]
       IN resp' = IF episode = None THEN return(send(r, 404, "json"))
                  ELSE [r EXCEPT !.pc = "ImageResponse"]
  /\ UNCHANGED <<db, server>>

\* the image of the episode is composed and sent; a failure is caught and
\* answered with 500
OgImageByIdRendered ==
  /\ Pending("ogImageById", "ImageResponse")
  /\ \E rendered \in BOOLEAN :
       resp' = IF rendered
               THEN return(send([resp EXCEPT !.rendered = Some(TRUE)], 200, "episode image"))
               ELSE return(send([resp EXCEPT !.rendered = Some(FALSE)], 500, "json"))
  /\ UNCHANGED <<db, server>>

\* the category renderer (part_001) up to the await of fetchCategories
RenderCategoryStart ==
  /\ resp = Idle
  /\ \E req \in CategoryRequests, development \in BOOLEAN :
       LET category == requestCategory(req)
           r == [handler |-> "renderCategorySteps", pc |-> "start", sent |-> <<>>,
                 category |-> category, development |-> development]
       IN resp' = IF ~Truthy(category) THEN return(send(r, 400, "text"))
                  ELSE IF toLowerCase(category[1]) \in EXCLUDED_PATHS
                  THEN return(send(r, 404, "text"))
                  ELSE [r EXCEPT !.pc = "fetchCategories"]
  /\ UNCHANGED <<db, server>>

\* the category renderer after the await of fetchCategories: an error goes
\* to the catch block, a category that is not valid is redirected
afterFetchCategories(r, cats) ==
  IF cats.threw THEN [r EXCEPT !.pc = "catch"]
  ELSE IF ~categoryVerdict(cats.value, r.category[1]).valid
  THEN return(send(r, 302, "redirect"))
  ELSE [r EXCEPT !.pc = "readFile"]

\* fetchCategories has answered
RenderCategoryFetched ==
  /\ Pending("renderCategorySteps", "fetchCategories")
  /\ \E next \in {afterFetchCategories(resp, cats) : cats \in CategoryFetches(db)} :
       resp' = next
  /\ UNCHANGED <<db, server>>

\* the episode renderer up to the await of fetchEpisodeById
RenderEpisodeStart ==
  /\ resp = Idle
  /\ \E req \in EpisodeRequests, development \in BOOLEAN :
       LET episodeId == requestEpisodeId(req)
           r == [handler |-> "renderEpisodeSteps", pc |-> "start", sent |-> <<>>,
                 id |-> episodeId, development |-> development]
       IN resp' = IF ~Truthy(episodeId) THEN return(send(r, 400, "text"))
                  ELSE [r EXCEPT !.pc = "fetchEpisodeById"]
  /\ UNCHANGED <<db, server>>

\* fetchEpisodeById has answered: no episode is redirected
RenderEpisodeFetched ==
  /\ Pending("renderEpisodeSteps", "fetchEpisodeById")
  /\ \E ok \in BOOLEAN :
       resp' = IF fetchEpisodeById(db, resp.id[1], ok) = None
               THEN return(send(resp, 302, "redirect"))
               ELSE [resp EXCEPT !.pc = "readFile"]
  /\ UNCHANGED <<db, server>>

\* the loop over the shell paths of both renderers is over: without a shell
\* an error is thrown, with it the page is sent
RenderShellRead ==
  /\ Pending("renderCategorySteps", "readFile") \/ Pending("renderEpisodeSteps", "readFile")
  /\ \E html \in {readShell(readable) : readable \in Readable} :
       resp' = IF ~Truthy(html) THEN [resp EXCEPT !.pc = "catch"]
               ELSE return(send(resp, 200, "html"))
  /\ UNCHANGED <<db, server>>

\* the catch block of both renderers
RenderCatch ==
  /\ Pending("renderCategorySteps", "catch") \/ Pending("renderEpisodeSteps", "catch")
  /\ resp' = IF resp.development THEN return(send(resp, 500, "json"))
             ELSE return(send(resp, 302, "redirect"))
  /\ UNCHANGED <<db, server>>

StepHandlers == {"ogImage", "ogImageById", "renderCategorySteps", "renderEpisodeSteps"}

\* the invocation is over
HandlerEnd ==
  /\ resp.handler \in StepHandlers /\ resp.pc = "end"
  /\ End

\* a piece of a handler that has begun runs
HandlerStep ==
  \/ OgImageFetched
  \/ OgImageRendered
  \/ serveDefaultImage
  \/ OgImageByIdFetched
  \/ OgImageByIdRendered
  \/ RenderCategoryFetched
  \/ RenderEpisodeFetched
  \/ RenderShellRead
  \/ RenderCatch

\* the records of the datastore while the handlers run
HandlerRows(id) ==
  [id : {id}, status : Statuses, title : {"Plain title"}, excerpt : {None},
   description : {None}, full_description : {None}, created_at : {1},
   category : {Some("Health")}]

InitHandlers ==
  /\ db \in {d \in [Ids -> {None} \cup UNION {{Some(r) : r \in HandlerRows(id)} : id \in Ids}] :
               \A id \in Ids : d[id] # None => d[id][1].id = id}
  /\ resp = Idle
  /\ ServerStarted

NextHandlers ==
  \/ OgImageStart
  \/ OgImageByIdStart
  \/ RenderCategoryStart
  \/ RenderEpisodeStart
  \/ HandlerStep
  \/ HandlerEnd

SpecHandlers == InitHandlers /\ [][NextHandlers]_vars

(***************************************************************************)
(* The data access layer and the JSON API over every datastore content     *)
(***************************************************************************)
DataRows(id) ==
  [id : {id}, status : Statuses, title : {"Plain title"}, excerpt : {None},
   description : {None}, full_description : {None}, created_at : 1..MaxTime,
   category : {None} \cup {Some(l) : l \in Labels}]

Init ==
  /\ db \in {d \in [Ids -> {None} \cup UNION {{Some(r) : r \in DataRows(id)} : id \in Ids}] :
               \A id \in Ids : d[id] # None => d[id][1].id = id}
  /\ resp = Idle
  /\ ServerStarted

Next ==
  \/ FetchEpisodes
  \/ FetchEpisodeById
  \/ FetchCategories
  \/ CategoriesApi
  \/ EpisodeByIdApi
  \/ EpisodesApi
  \/ CategoriesApiTs
  \/ End

Spec == Init /\ [][Next]_vars

(***************************************************************************)
(* Properties of the data access layer and of the JSON API                 *)
(***************************************************************************)
Completed(d) == {r \in Rows(d) : r.status = "completed"}
HasCompleted(d, id) == \E r \in Completed(d) : r.id = id

\* C1: whenever the read succeeds, listEpisodes (fetchEpisodes) returns
\* exactly the completed episodes, each once, newest first, and getEpisode
\* (fetchEpisodeById) returns the episode of the requested id if and only if
\* the record of that id is completed; it never returns an episode whose
\* record is not completed.
C1_OnlyCompletedVisible ==
  /\ resp.handler = "fetchEpisodes" =>
       /\ resp.ok <=> ~resp.result.threw
       /\ ~resp.result.threw =>
            LET v == resp.result.value IN
            /\ Len(v) = Cardinality(Completed(db))
            /\ {v[i].id : i \in 1..Len(v)} = {r.id : r \in Completed(db)}
            /\ \A i \in 1..Len(v) :
                 \E r \in Completed(db) :
                   r.id = v[i].id /\ r.title = v[i].title /\ r.created_at = v[i].createdAt
            /\ \A i, j \in 1..Len(v) : i < j => v[i].createdAt >= v[j].createdAt
  /\ resp.handler = "fetchEpisodeById" =>
       /\ resp.result # None =>
            HasCompleted(db, resp.id) /\ resp.result[1].id = resp.id
       /\ (resp.ok /\ HasCompleted(db, resp.id)) => resp.result # None

\* a listing that leaves out a record that is not completed
C1_Witness ==
  /\ resp.handler = "fetchEpisodes"
  /\ ~resp.result.threw
  /\ Len(resp.result.value) = 1
  /\ \E r \in Rows(db) : r.status # "completed"

\* C2: listCategories (fetchCategories, and the /api/categories handler that
\* runs the same query) returns a list in strictly ascending code-unit order,
\* hence sorted and free of duplicates, whose elements are exactly the
\* non-null category values of the completed episodes.
C2_CategoriesSortedDistinct ==
  LET Good(v) ==
        /\ \A i \in 1..(Len(v) - 1) : StrLess(v[i], v[i + 1])
        /\ Range(v) = {r.category[1] : r \in {c \in Completed(db) : c.category # None}}
  IN /\ (resp.handler = "fetchCategories" /\ ~resp.result.threw) => Good(resp.result.value)
     /\ (resp.handler = "categoriesApi" /\ resp.success) => Good(resp.data)

\* episodes a: Health/completed and b: Health/draft give ["Health"]
C2_Witness ==
  /\ resp.handler = "fetchCategories"
  /\ ~resp.result.threw
  /\ resp.result.value = <<"Health">>
  /\ \E r \in Rows(db) : r.status = "draft" /\ r.category = Some("Health")
  /\ \E r \in Rows(db) : r.status = "completed" /\ r.category = Some("Health")

\* C10: GET /api/episodes/{id}: when a completed episode of that id exists
\* (and the read succeeds) the response is 200 with success true and a data
\* object whose id is the requested id; when no completed episode has that
\* id the response is 404 with success false.
C10_EpisodeByIdApi ==
  (resp.handler = "episodeByIdApi" /\ resp.method = "GET" /\ Truthy(resp.id)) =>
    /\ (resp.ok /\ HasCompleted(db, resp.id[1])) =>
         /\ resp.status = 200
         /\ resp.success
         /\ resp.data # None
         /\ resp.data[1].id = resp.id[1]
    /\ ~HasCompleted(db, resp.id[1]) =>
         /\ resp.status = 404
         /\ ~resp.success
         /\ resp.data = None

\* a completed episode is served while another record is a draft
C10_Witness ==
  /\ resp.handler = "episodeByIdApi"
  /\ resp.status = 200
  /\ resp.success
  /\ resp.data[1].id = resp.id[1]
  /\ \E r \in Rows(db) : r.status = "draft"

\* C11: getEpisode (fetchEpisodeById) gives absent for an id that has no
\* completed episode when the read succeeds; a failed read is told apart
\* from absent: GET /api/episodes/{id} answers a failed read with a 500 JSON
\* error, and answers 404 only when the read succeeded and no completed
\* episode has the id.
C11_UpstreamDistinct ==
  /\ (resp.handler = "fetchEpisodeById" /\ resp.ok /\ ~HasCompleted(db, resp.id))
       => resp.result = None
  /\ (resp.handler = "episodeByIdApi" /\ resp.method = "GET" /\ Truthy(resp.id)) =>
       /\ ~resp.ok => (resp.status = 500 /\ resp.hasBody /\ ~resp.success /\ resp.error # "")
       /\ resp.status = 404 => (resp.ok /\ ~HasCompleted(db, resp.id[1]))

ApiHandlers == {"episodesApi", "episodeByIdApi", "categoriesApiTs", "categoriesApi"}

\* C12: every JSON API handler keeps the uniform envelope: an OPTIONS request
\* is answered 200 with no body and without a datastore read; every other
\* response has a body in which success is true and a data field is present
\* if and only if the status is 200, and in which a failure has success
\* false, an error message, no data field and a status other than 200.
C12_UniformEnvelope ==
  resp.handler \in ApiHandlers =>
    IF resp.method = "OPTIONS"
    THEN resp.status = 200 /\ ~resp.hasBody /\ resp.dbReads = 0
    ELSE /\ resp.hasBody
         /\ (resp.success /\ resp.hasData) <=> resp.status = 200
         /\ resp.success = resp.hasData
         /\ ~resp.success => (resp.error # "" /\ resp.status # 200)

\* /api/episodes has answered a failed read while completed episodes exist
C12_Witness ==
  /\ resp.handler = "episodesApi"
  /\ resp.method = "GET"
  /\ resp.status = 500
  /\ resp.error = "Failed to fetch episodes"
  /\ Completed(db) # {}

(***************************************************************************)
(* Properties of the slug resolution and of the category renderers         *)
(***************************************************************************)
\* a response of a category renderer that has validated a category
CategoryValidated ==
  /\ resp.handler \in {"renderCategory", "renderCategoryBasic"}
  /\ resp.dbReads = 1
  /\ ~resp.fetchThrew

\* the slug derived from a label: lowercase, whitespace runs to a hyphen,
\* "&" to "and", then everything outside [a-z0-9-] stripped
DerivedSlug(label) ==
  LET lowered == toLowerCase(label)
      hyphened == ReplaceRuns(lowered, {" ", "\t", "\n", "\r"}, "-")
      anded == ReplaceIn(hyphened, {"&"}, "and")
  IN ReplaceNotIn(anded, Chars("abcdefghijklmnopqrstuvwxyz0123456789-"), "")

\* C3 as stated: for every label L of the category list, resolving the slug
\* derived from L returns exactly L.
C3_Original ==
  (CategoryValidated /\ resp.handler = "renderCategory") =>
    \A L \in Range(resp.categories) :
      resp.category[1] = DerivedSlug(L) => resp.matchingCategory = Some(L)

\* C3 (amended): for every label L of the category list whose derived slug
\* is the derived slug of no other label of the list, resolving the slug
\* derived from L returns exactly L.
C3_SlugRoundTrip ==
  (CategoryValidated /\ resp.handler = "renderCategory") =>
    \A L \in Range(resp.categories) :
      (/\ resp.category[1] = DerivedSlug(L)
       /\ \A M \in Range(resp.categories) : M # L => DerivedSlug(M) # DerivedSlug(L))
        => resp.matchingCategory = Some(L)

\* the slug of "Business & Economy" resolves to it among other labels
C3_Witness ==
  /\ CategoryValidated
  /\ resp.handler = "renderCategory"
  /\ resp.category = Some("business-and-economy")
  /\ Len(resp.categories) = 2
  /\ resp.matchingCategory = Some("Business & Economy")
  /\ resp.status = 200

\* C4: all case variants of a path segment resolve identically: the
\* validity verdict and the matched label that a renderer has computed for a
\* segment are those it computes for every segment that differs from it in
\* case only.
C4_CaseInsensitive ==
  CategoryValidated =>
    \A t \in Segments :
      toLowerCase(t) = toLowerCase(resp.category[1]) =>
        LET verdict == IF resp.handler = "renderCategory"
                       THEN categoryVerdict(resp.categories, t)
                       ELSE categoryVerdictBasic(resp.categories, t)
        IN verdict.valid = resp.valid /\ verdict.matching = resp.matchingCategory

\* text with whitespace and every non-alphanumeric character stripped
StripNonAlphaNum(t) == ReplaceNotIn(toLowerCase(t), Chars("abcdefghijklmnopqrstuvwxyz0123456789"), "")
\* text with its hyphens removed
StripHyphens(t) == ReplaceNotIn(t, Chars(ASCII) \ {"-"}, "")

\* no label of the list matches the segment exactly or by its derived slug
NoExactNoSlugMatch(categories, segment) ==
  \A c \in Range(categories) :
    toLowerCase(c) # toLowerCase(segment) /\ DerivedSlug(c) # toLowerCase(segment)

Resolves(categories, segment) ==
  \/ slugToCategory(categories, toLowerCase(segment)) # None
  \/ toLowerCase(segment) \in SPECIAL_FILTERS

\* C6: for a category request whose segment is not reserved, the renderer
\* answers 200 with the rendered HTML only if the segment resolves to a real
\* category or a virtual keyword, does so whenever the shell can be read,
\* and answers every segment that resolves to neither with a 302 redirect
\* to "/" and no HTML.
C6_ValidIff200 ==
  CategoryValidated =>
    /\ (resp.status = 200 \/ resp.kind = "html") => Resolves(resp.categories, resp.category[1])
    /\ (Resolves(resp.categories, resp.category[1]) /\ resp.shellRead)
         => resp.status = 200 /\ resp.kind = "html"
    /\ ~Resolves(resp.categories, resp.category[1])
         => resp.status = 302 /\ resp.kind = "redirect" /\ resp.location = "/" /\ resp.body = ""

\* the content attribute of the first tag of the document that begins with pre
AttrContent(doc, pre) ==
  LET from == Min(Occ(doc, pre)) + Len(pre)
      quotes == {q \in from..Len(doc) : At(doc, q) = "\""}
  IN SubSeq(doc, from, Min(quotes) - 1)

\* the tags that the category renderer substitutes
CategoryPatterns ==
  {TagPattern("<meta property=\"og:url\" content=\""),
   TagPattern("<meta property=\"og:title\" content=\""),
   TagPattern("<meta property=\"og:description\" content=\""),
   TagPattern("<meta property=\"og:image\" content=\""),
   TagPattern("<meta name=\"twitter:url\" content=\""),
   TagPattern("<meta name=\"twitter:title\" content=\""),
   TagPattern("<meta name=\"twitter:description\" content=\""),
   TagPattern("<meta name=\"twitter:image\" content=\""),
   TitlePattern}

\* the texts of the shell outside the tags of the patterns, in order
FramePieces(shell, patterns) ==
  LET cuts == {FirstMatch(shell, pat) : pat \in patterns} \ {<<0, 0>>}
      n == Cardinality(cuts)
      \* the i-th cut by position
      Cut(i) == CHOOSE c \in cuts : Cardinality({x \in cuts : x[1] < c[1]}) = i - 1
  IN [i \in 1..(n + 1) |->
        SubSeq(shell,
               IF i = 1 THEN 1 ELSE Cut(i - 1)[2] + 1,
               IF i = n + 1 THEN Len(shell) ELSE Cut(i)[1] - 1)]

\* doc consists of the pieces in their order with some text between them:
\* from position at on, for the pieces i..Len(pieces)
RECURSIVE HoldsPieces(_, _, _, _)
HoldsPieces(doc, pieces, i, at) ==
  IF i = Len(pieces)
  THEN /\ Len(doc) - Len(pieces[i]) + 1 >= at
       /\ SubSeq(doc, Len(doc) - Len(pieces[i]) + 1, Len(doc)) = pieces[i]
  ELSE LET occ == {p \in Occ(doc, pieces[i]) : p >= at /\ (i = 1 => p = 1)}
       IN occ # {} /\ HoldsPieces(doc, pieces, i + 1, Min(occ) + Len(pieces[i]))

\* C7: a valid category page of the canonical label Label has og:title and
\* twitter:title equal to "{Label} Stories | Angle", and the document is the
\* shell outside the substituted tags.
C7_TitleAndFrame ==
  (resp.handler = "renderCategory" /\ resp.status = 200 /\ resp.matchingCategory # None) =>
    /\ AttrContent(resp.body, "<meta property=\"og:title\" content=\"")
         = resp.matchingCategory[1] \o " Stories | Angle"
    /\ AttrContent(resp.body, "<meta name=\"twitter:title\" content=\"")
         = resp.matchingCategory[1] \o " Stories | Angle"
    /\ HoldsPieces(resp.body, FramePieces(Shell, CategoryPatterns), 1, 1)

(***************************************************************************)
(* Claims about the episode renderer (checked under SpecEpisode)           *)
(***************************************************************************)
\* the five characters that need escaping, and the entities that stand for them
HtmlSpecial == {"&", "<", ">", "\"", "'"}
Entities == {"&amp;", "&lt;", "&gt;", "&quot;", "&#039;"}

HasSpecial(t) == \E i \in 1..Len(t) : At(t, i) \in HtmlSpecial

\* t holds none of the five characters raw: an ampersand only begins an entity
NoneRaw(t) ==
  \A i \in 1..Len(t) :
    /\ At(t, i) \notin {"<", ">", "\"", "'"}
    /\ At(t, i) = "&" => \E e \in Entities : SubSeq(t, i, Min({Len(t), i + Len(e) - 1})) = e

\* the first tag of the document that begins with pre holds text with nothing
\* raw up to the quote that closes the attribute, and closes right after it
WellFormedAttr(doc, pre) ==
  LET text == AttrContent(doc, pre)
      after == Min(Occ(doc, pre)) + Len(pre) + Len(text)
  IN NoneRaw(text) /\ SubSeq(doc, after, Min({Len(doc), after + 1})) = "\">"

\* the title element holds text with nothing raw up to its closing tag
WellFormedTitle(doc) ==
  LET from == Min(Occ(doc, "<title>")) + Len("<title>")
      text == SubSeq(doc, from, Min({q \in from..Len(doc) : At(doc, q) = "<"}) - 1)
      after == from + Len(text)
  IN NoneRaw(text) /\ SubSeq(doc, after, Min({Len(doc), after + Len("</title>") - 1})) = "</title>"

EpisodeTextTags ==
  {"<meta property=\"og:title\" content=\"", "<meta property=\"og:description\" content=\"",
   "<meta name=\"twitter:title\" content=\"", "<meta name=\"twitter:description\" content=\""}

\* C8: in every episode page rendered for an episode whose title or
\* description holds one of & < > " ', the text put into the content
\* attributes of the title and description tags and into the title element
\* holds none of those characters raw, and each of those tags closes right
\* after its text.
C8_EscapedWellFormed ==
  (/\ resp.handler = "renderEpisode" /\ resp.status = 200
   /\ \/ HasSpecial(resp.episode[1].title)
      \/ HasSpecial(OrElse(resp.episode[1].fullDescription, OrElse(resp.episode[1].description, Some("")))[1]))
    => /\ \A pre \in EpisodeTextTags : WellFormedAttr(resp.body, pre)
       /\ WellFormedTitle(resp.body)

\* C9: the episode page of an id that has no completed episode is answered
\* with a 302 redirect to "/" and no document, never with 200 or HTML.
C9_AbsentRedirects ==
  (resp.handler = "renderEpisode" /\ Truthy(resp.id) /\ ~HasCompleted(db, resp.id[1])) =>
    /\ resp.status = 302 /\ resp.kind = "redirect" /\ resp.location = "/" /\ resp.body = ""

\* a record that is not completed was requested, and so was an unknown id
C9_Witness ==
  /\ resp.handler = "renderEpisode" /\ Truthy(resp.id) /\ resp.status = 302
  /\ resp.fetchOk /\ resp.shellRead
  /\ \/ resp.id[1] \in Ids /\ db[resp.id[1]] # None /\ db[resp.id[1]][1].status = "draft"
     \/ resp.id[1] = UnknownId

(***************************************************************************)
(* Reserved segments and virtual keywords (C13 under SpecReserved)         *)
(***************************************************************************)
ReservedStrings == {"api", "episode", "images", "fonts", "robots.txt", "favicon.ico", "sitemap.xml"}

\* C13: a segment that equals a reserved string, whatever its case, is never
\* treated as a category: the category renderer answers 404, reads no
\* datastore and sends no HTML, even when a completed episode carries a
\* category with that label.
C13_ReservedNeverCategory ==
  (/\ resp.handler \in {"renderCategory", "renderCategoryBasic"}
   /\ Truthy(resp.category)
   /\ toLowerCase(resp.category[1]) \in ReservedStrings)
    => /\ resp.status = 404
       /\ resp.dbReads = 0
       /\ resp.kind # "html"
       /\ resp.matchingCategory = None

\* "Sitemap.XML" is requested while a completed episode is tagged "Sitemap.xml"
C13_Witness ==
  /\ resp.handler \in {"renderCategory", "renderCategoryBasic"}
  /\ resp.category = Some("Sitemap.XML")
  /\ resp.status = 404
  /\ \E r \in Completed(db) : r.category = Some("Sitemap.xml")

\* C14: a segment whose lowercase form is "new" or "popular" is valid
\* whatever its case and whatever the category list holds; its page has the
\* label "New" respectively "Popular", the title "{label} Stories | Angle"
\* and, as og:description, the fixed copy of the keyword.
C14_VirtualKeywords ==
  (/\ resp.handler = "renderCategory"
   /\ CategoryValidated
   /\ toLowerCase(resp.category[1]) \in {"new", "popular"}) =>
    LET isNew == toLowerCase(resp.category[1]) = "new"
        label == IF isNew THEN "New" ELSE "Popular"
        copy == IF isNew THEN "Latest stories worth listening."
                ELSE "Popular stories worth listening."
    IN /\ resp.valid
       /\ resp.status = 200 =>
            /\ resp.label = label
            /\ AttrContent(resp.body, "<meta property=\"og:title\" content=\"") = label \o " Stories | Angle"
            /\ AttrContent(resp.body, "<meta property=\"og:description\" content=\"") = copy

\* C15 (checked under SpecOrder): slug resolution applies the rules exact
\* case-insensitive match, derived-slug match, loose match in this order and
\* returns the first label in list order that satisfies the first rule that
\* any label satisfies; it returns no label when no label satisfies a rule.
C15_FirstRuleFirstCandidate ==
  (CategoryValidated /\ resp.handler = "renderCategory") =>
    LET segment == toLowerCase(resp.category[1])
        list == resp.categories
        exact == {i \in 1..Len(list) : toLowerCase(list[i]) = segment}
        bySlug == {i \in 1..Len(list) : DerivedSlug(list[i]) = segment}
        loose == {i \in 1..Len(list) : StripNonAlphaNum(list[i]) = StripHyphens(segment)}
    IN resp.matchingCategory =
         IF exact # {} THEN Some(list[Min(exact)])
         ELSE IF bySlug # {} THEN Some(list[Min(bySlug)])
         ELSE IF loose # {} THEN Some(list[Min(loose)])
         ELSE None

\* the label that matches by its slug wins over the label before it in the
\* list that matches by the loose rule only
C15_Witness ==
  /\ CategoryValidated
  /\ resp.handler = "renderCategory"
  /\ resp.category = Some("Business-Economy")
  /\ resp.categories = <<"Business & Economy", "Business Economy">>
  /\ resp.matchingCategory = Some("Business Economy")
  /\ resp.status = 200

(***************************************************************************)
(* The description and the fixed tags of the episode page                  *)
(***************************************************************************)
\* text with each of & < > " ' written as its entity
EntityOf(c) ==
  CASE c = "&" -> "&amp;"
    [] c = "<" -> "&lt;"
    [] c = ">" -> "&gt;"
    [] c = "\"" -> "&quot;"
    [] c = "'" -> "&#039;"
    [] OTHER -> c

RECURSIVE Encoded(_)
Encoded(t) == IF t = "" THEN "" ELSE EntityOf(Head(t)) \o Encoded(Tail(t))

\* a text is present when it is neither null nor empty
Present(o) == o # None /\ o[1] # ""

\* the stored record of the episode that a response has rendered
RenderedRow == db[resp.id[1]][1]

\* C16: on an episode page og:description and twitter:description are the
\* long-form description if present, else the short description if present,
\* else "Stories worth listening." (each written with its entities); og:type
\* is "article", og:image:width is 1200 and og:image:height is 630.
C16_EpisodeDescription ==
  (resp.handler = "renderEpisode" /\ resp.status = 200) =>
    LET long == IF Present(RenderedRow.description) THEN RenderedRow.description
                ELSE RenderedRow.full_description
        expected == IF Present(long) THEN long[1]
                    ELSE IF Present(RenderedRow.excerpt) THEN RenderedRow.excerpt[1]
                    ELSE "Stories worth listening."
    IN /\ AttrContent(resp.body, "<meta property=\"og:description\" content=\"") = Encoded(expected)
       /\ AttrContent(resp.body, "<meta name=\"twitter:description\" content=\"") = Encoded(expected)
       /\ AttrContent(resp.body, "<meta property=\"og:type\" content=\"") = "article"
       /\ AttrContent(resp.body, "<meta property=\"og:image:width\" content=\"") = "1200"
       /\ AttrContent(resp.body, "<meta property=\"og:image:height\" content=\"") = "630"

(***************************************************************************)
(* Failures inside the HTML render handlers                                *)
(***************************************************************************)
\* a category renderer has met a failure: the read of the category list
\* failed, or the category was valid and the shell could not be read
CategoryRenderFailed ==
  /\ resp.handler \in {"renderCategory", "renderCategoryBasic"}
  /\ resp.dbReads = 1
  /\ resp.fetchThrew \/ (resp.valid /\ ~resp.shellRead)

\* the answer that a failure must get
FailureAnswered ==
  IF resp.development
  THEN resp.status = 500 /\ resp.kind = "json" /\ resp.body # ""
  ELSE resp.status = 302 /\ resp.kind = "redirect" /\ resp.location = "/" /\ resp.body = ""

\* the episode renderer has met a failure: the read of the episode failed,
\* or the episode was found and the shell could not be read
EpisodeRenderFailed ==
  /\ resp.handler = "renderEpisode"
  /\ resp.dbReads = 1
  /\ ~resp.fetchOk \/ (resp.episode # None /\ ~resp.shellRead)

\* C17: a failure inside an HTML render handler (the datastore read fails,
\* the shell is unreadable) is answered with status 500 and a diagnostic JSON
\* body under a development configuration and with a 302 redirect to "/"
\* otherwise, never with 200.
C17_RenderFailure ==
  (CategoryRenderFailed \/ EpisodeRenderFailed) => FailureAnswered

(***************************************************************************)
(* Properties of the sitemap (checked under SpecSitemap)                   *)
(***************************************************************************)
\* the calendar day of each instant
DayOf == <<"2025-01-01", "2025-01-01", "2025-01-02", "2025-01-03">>

\* the number of places of the document at which text begins
CountOf(doc, text) == Cardinality(Occ(doc, text))

HomeLoc == "<loc>https://newsangle.co/</loc>"
EpisodeLoc(id) == "<loc>https://newsangle.co/episode/" \o id \o "</loc>"

\* C18: when the episodes are read, the sitemap holds exactly one <url>
\* entry for the home page and exactly one <url> entry per completed episode,
\* whose URL is built from the id and whose lastmod is the calendar day of
\* its creation; no other episode has an entry.
C18_SitemapEntries ==
  (resp.handler = "sitemap" /\ resp.method = "GET" /\ ~resp.episodesThrew) =>
    /\ resp.status = 200
    /\ CountOf(resp.body, HomeLoc) = 1
    /\ CountOf(resp.body, "<loc>https://newsangle.co/episode/") = Cardinality(Completed(db))
    /\ \A r \in Completed(db) :
         /\ CountOf(resp.body, EpisodeLoc(r.id)) = 1
         /\ CountOf(resp.body, EpisodeLoc(r.id) \o "\n    <lastmod>" \o DayOf[r.created_at] \o "</lastmod>") = 1
    /\ \A id \in Ids : ~HasCompleted(db, id) => CountOf(resp.body, EpisodeLoc(id)) = 0

\* a sitemap of a completed episode beside a record that is not completed
C18_Witness ==
  /\ resp.handler = "sitemap" /\ resp.method = "GET" /\ ~resp.episodesThrew
  /\ resp.status = 200
  /\ \E r \in Completed(db) : r.created_at = 2
  /\ \E r \in Rows(db) : r.status = "draft"

\* the texts between the tags <loc> and </loc> of a document
LocTexts(doc) ==
  {SubSeq(doc, p + Len("<loc>"), Min({q \in Occ(doc, "</loc>") \cup {Len(doc) + 1} : q > p}) - 1) :
     p \in Occ(doc, "<loc>")}

\* character data of XML: no "<", and "&" only at the start of an entity
XmlText(t) ==
  \A i \in 1..Len(t) :
    /\ At(t, i) # "<"
    /\ At(t, i) = "&" =>
         \E e \in {"&amp;", "&lt;", "&gt;", "&quot;", "&apos;"} :
           SubSeq(t, i, Min({Len(t), i + Len(e) - 1})) = e

\* C19: for every datastore content the sitemap is a well-formed document
\* with at least the entry of the home page: each <url> is closed, and every
\* URL is character data of XML, also when a category label holds "&".
C19_SitemapWellFormed ==
  (resp.handler = "sitemap" /\ resp.method = "GET") =>
    /\ CountOf(resp.body, HomeLoc) >= 1
    /\ CountOf(resp.body, "<url>") = CountOf(resp.body, "</url>")
    /\ CountOf(resp.body, "<loc>") = CountOf(resp.body, "</loc>")
    /\ CountOf(resp.body, "<urlset") = 1 /\ CountOf(resp.body, "</urlset>") = 1
    /\ \A t \in LocTexts(resp.body) : XmlText(t)

\* C20: when the read of the episodes fails, the sitemap handler still
\* answers 200 with a document that holds the entry of the home page and no
\* other entry.
C20_SitemapFallback ==
  (resp.handler = "sitemap" /\ resp.method = "GET" /\ resp.episodesThrew) =>
    /\ resp.status = 200
    /\ resp.contentType = "application/xml; charset=utf-8"
    /\ CountOf(resp.body, "<url>") = 1 /\ CountOf(resp.body, "</url>") = 1
    /\ CountOf(resp.body, HomeLoc) = 1
    /\ CountOf(resp.body, "<loc>") = 1
    /\ CountOf(resp.body, "<urlset") = 1 /\ CountOf(resp.body, "</urlset>") = 1

\* the read of the episodes fails while completed episodes with a category exist
C20_Witness ==
  /\ resp.handler = "sitemap" /\ resp.method = "GET" /\ resp.episodesThrew
  /\ ~resp.categoriesThrew
  /\ resp.status = 200
  /\ \E r \in Completed(db) : r.category # None

\* C21: in the sitemap handler the two reads run concurrently, and when the
\* read of the categories alone fails, before or after the read of the
\* episodes settles, the sitemap is still produced from the episodes that
\* were read: the home entry, the entries "new" and "popular" and one entry
\* per episode, and no category entry.
C21_CategoryFailureTolerated ==
  (resp.handler = "sitemap" /\ resp.method = "GET"
     /\ ~resp.episodesThrew /\ resp.categoriesThrew) =>
    /\ resp.status = 200
    /\ CountOf(resp.body, HomeLoc) = 1
    /\ \A i \in 1..Len(resp.episodes) :
         CountOf(resp.body, EpisodeLoc(resp.episodes[i].id)) = 1
    /\ CountOf(resp.body, "<loc>https://newsangle.co/episode/") = Len(resp.episodes)
    /\ CountOf(resp.body, "<url>") = 3 + Len(resp.episodes)

\* the read of the categories failed first, the read of the episodes then
\* gave every episode, and the sitemap was sent
C21_Witness ==
  /\ resp.handler = "sitemap" /\ resp.method = "GET"
  /\ resp.settled = <<"categories", "episodes">>
  /\ resp.categoriesThrew /\ ~resp.episodesThrew
  /\ Len(resp.episodes) = MaxEpisodes
  /\ resp.status = 200

\* the age of the cache entry at the instant t, by its timestamp
EntryAge(t) == t - cacheTimestamp[1]
\* a call of getEpisodes begins, ends with a list
Begins(c) == calls[c].pc = "idle" /\ calls'[c].pc # "idle"
Refreshes(c) == calls[c].pc = "fetching" /\ calls'[c].pc = "done" /\ calls'[c].status = 200

\* C22: there is one cache entry for all callers. A call that begins while
\* the entry is younger than 5 minutes returns the cached list at once,
\* without a query and without changing the entry; a call that begins when
\* there is no entry or the entry is 5 minutes old or older sends a query, and
\* when the query succeeds the list read and the instant at which the call
\* began replace the cached list and its timestamp.
C22_CacheTtl ==
  [][\A c \in Callers :
       /\ Begins(c) =>
            IF episodesCache # None /\ EntryAge(clock) < 5 * 60 * 1000
            THEN /\ calls'[c].pc = "done" /\ calls'[c].status = 200
                 /\ calls'[c].data = episodesCache
                 /\ calls'[c].dbReads = 0
                 /\ episodesCache' = episodesCache /\ cacheTimestamp' = cacheTimestamp
            ELSE /\ calls'[c].pc = "fetching"
                 /\ calls'[c].answer = None
       /\ Refreshes(c) =>
            /\ calls'[c].dbReads = 1
            /\ calls'[c].data = Some(calls[c].answer[1].value)
            /\ episodesCache' = calls'[c].data
            /\ cacheTimestamp' = Some(calls[c].now)]_vars

\* one call was answered from an entry that was not yet 5 minutes old, and
\* the call made when the entry was 5 minutes old has fetched and stored a
\* new entry
C22_Witness ==
  \E c, d \in Callers :
    /\ calls[c].pc = "done" /\ calls[c].fromCache /\ calls[c].dbReads = 0
    /\ calls[d].pc = "done" /\ ~calls[d].fromCache /\ calls[d].status = 200
    /\ calls[c].readAt[1] < calls[c].now
    /\ calls[d].now = calls[c].readAt[1] + 5 * 60 * 1000
    /\ cacheTimestamp = Some(calls[d].now)
    /\ episodesCache = calls[d].data

\* the call c continues after the datastore answered its query with an error
RefreshFails(c) ==
  /\ calls[c].pc = "fetching" /\ calls[c].answer # None /\ calls[c].answer[1].threw
  /\ calls'[c].pc = "done"

\* C23: a refresh that fails leaves the cached list and its timestamp as they
\* were, the caller gets the failure (status 500, no list, not the cached
\* one), and a call that begins after a failure while the entry is missing
\* or expired sends a query again.
C23_FailedRefresh ==
  [][\A c \in Callers :
       /\ RefreshFails(c) =>
            /\ episodesCache' = episodesCache
            /\ cacheTimestamp' = cacheTimestamp
            /\ calls'[c].status = 500 /\ ~calls'[c].success
            /\ calls'[c].data = None
       /\ \A d \in Callers :
            (/\ calls[c].pc = "done" /\ calls[c].status = 500
             /\ Begins(d)
             /\ (episodesCache = None \/ EntryAge(clock) >= 5 * 60 * 1000)) =>
              calls'[d].pc = "fetching" /\ calls'[d].answer = None]_vars

\* the refresh of an expired entry failed, the entry is still there, and a
\* later call is fetching again
C23_Witness ==
  \E c, d \in Callers :
    /\ calls[c].pc = "done" /\ calls[c].status = 500
    /\ episodesCache # None
    /\ cacheTimestamp[1] + 5 * 60 * 1000 <= calls[c].now
    /\ calls[d].pc = "fetching" /\ calls[d].now > calls[c].now

\* the call c is between its query and its continuation
InFlight(c) == calls[c].pc = "fetching"

\* the list that the datastore read of the call c produced
OwnList(c) == calls[c].answer[1].value

\* C25: calls that overlap while the cache is empty or expired are not
\* deduplicated. A call that begins while another one is in flight sends its
\* own query; a call that continues with a list sends exactly the list of its
\* own read, stores that list, and changes nothing of the other calls; so
\* the cache holds the list of the call that continued last, and no call
\* gets a list made of two reads.
C25_NoDeduplication ==
  [][\A c \in Callers :
       /\ (/\ Begins(c)
           /\ \E d \in Callers \ {c} : InFlight(d)
           /\ (episodesCache = None \/ EntryAge(clock) >= 5 * 60 * 1000)) =>
            /\ InFlight(c)'
            /\ calls'[c].answer = None
            /\ \A d \in Callers \ {c} : calls'[d] = calls[d]
       /\ Refreshes(c) =>
            /\ calls'[c].dbReads = 1
            /\ calls'[c].data = Some(OwnList(c))
            /\ episodesCache' = Some(OwnList(c))
            /\ \A d \in Callers \ {c} : calls'[d] = calls[d]]_vars

\* two calls overlapped, their reads produced different lists, each has its
\* own one, and the cache holds the list of the call that began first and
\* continued last
C25_Witness ==
  \E c, d \in Callers :
    /\ calls[c].pc = "done" /\ calls[c].status = 200 /\ ~calls[c].fromCache
    /\ calls[d].pc = "done" /\ calls[d].status = 200 /\ ~calls[d].fromCache
    /\ calls[c].now < calls[d].now
    /\ calls[d].now <= calls[c].readAt[1]
    /\ calls[c].data # calls[d].data
    /\ episodesCache = calls[c].data
    /\ cacheTimestamp = Some(calls[c].now)

\* C27: a list that a call returned from the cache, without a query of its
\* own, was read from the datastore before the call began and less than 5
\* minutes before it.
C27_CachedListIsRecent ==
  \A c \in Callers :
    (calls[c].pc = "done" /\ calls[c].fromCache) =>
      /\ calls[c].dbReads = 0
      /\ calls[c].readAt # None
      /\ calls[c].readAt[1] <= calls[c].now
      /\ calls[c].now - calls[c].readAt[1] < 5 * 60 * 1000

\* a call returned a cached list that was read some time before it, and the
\* datastore holds other episodes by now
C27_Witness ==
  \E c \in Callers :
    /\ calls[c].pc = "done" /\ calls[c].fromCache
    /\ calls[c].readAt[1] < calls[c].now
    /\ calls[c].data[1] \notin
         {fetchEpisodesFromDB(TRUE, order).value : order \in EpisodeRows(db)}

\* C28: the cache timestamp never moves backwards: a store never writes a
\* timestamp smaller than the one it replaces.
C28_TimestampMonotone ==
  [][(cacheTimestamp # None /\ cacheTimestamp' # None) =>
       cacheTimestamp'[1] >= cacheTimestamp[1]]_vars

\* C26: on every rendered episode page the content attribute of og:title
\* and the one of twitter:title are exactly the title of the episode with
\* its entities written out, also when the title holds a $ followed by &, '
\* or $.
C26_TitleExact ==
  (resp.handler = "renderEpisode" /\ resp.status = 200) =>
    /\ AttrContent(resp.body, "<meta property=\"og:title\" content=\"") = Encoded(RenderedRow.title)
    /\ AttrContent(resp.body, "<meta name=\"twitter:title\" content=\"") = Encoded(RenderedRow.title)

CategoryTextTags ==
  {"<meta property=\"og:title\" content=\"", "<meta property=\"og:description\" content=\"",
   "<meta name=\"twitter:title\" content=\"", "<meta name=\"twitter:description\" content=\""}

\* C29: on a valid category page whose canonical label holds one of & < > "
\* the label is inserted with its entities into og:title, og:description,
\* twitter:title, twitter:description and the title element: none of these
\* holds such a character raw and each tag closes right after its text.
\* (Labels with a $ are left aside: what happens to them is C7.)
C29_LabelEscaped ==
  (/\ resp.handler = "renderCategory" /\ resp.status = 200
   /\ resp.matchingCategory # None
   /\ HasSpecial(resp.label)
   /\ \A i \in 1..Len(resp.label) : At(resp.label, i) # "$") =>
    /\ \A pre \in CategoryTextTags : WellFormedAttr(resp.body, pre)
    /\ AttrContent(resp.body, "<meta property=\"og:title\" content=\"")
         = Encoded(resp.label \o " Stories | Angle")
    /\ WellFormedTitle(resp.body)

\* an invocation of one of the two episode preview-image handlers is over
ImageAnswered == resp.handler \in {"ogImage", "ogImageById"} /\ resp.pc = "end"

\* the episode was not found or its read failed, or the image of the episode
\* could not be composed
DataFailure ==
  \/ resp.fetchOk # None /\ resp.episode = None
  \/ resp.rendered = Some(FALSE)

\* C24: the episode preview-image handlers answer a data-related failure
\* (episode not found, read failed, composition of the episode's image
\* failed) with 200 and the default image; they answer 400 only when the
\* identifier is missing and 500 only when the default image itself cannot
\* be composed.
C24_ImagesNeverFail ==
  ImageAnswered =>
    LET answer == resp.sent[Len(resp.sent)]
    IN /\ DataFailure =>
            \/ answer = [status |-> 200, kind |-> "default image"]
            \/ answer.status = 500 /\ resp.defaultRendered = Some(FALSE)
       /\ answer.status = 400 => ~Truthy(resp.id)
       /\ answer.status = 500 => resp.defaultRendered = Some(FALSE)

\* an invocation of the episode preview-image handler, of the category
\* renderer or of the episode renderer is in progress or just over
Invoked == resp.handler \in {"ogImage", "renderCategorySteps", "renderEpisodeSteps"}

\* a piece of the invocation can run: each disjunct is the guard of one of
\* the actions of HandlerStep, and what an action does beyond its guard is
\* defined for every outcome of its await
CanGoOn ==
  \/ Pending("ogImage", "fetchEpisodeById")
  \/ Pending("ogImage", "ImageResponse")
  \/ Pending("ogImage", "serveDefaultImage")
  \/ Pending("renderCategorySteps", "fetchCategories") /\ CategoryFetches(db) # {}
  \/ Pending("renderEpisodeSteps", "fetchEpisodeById")
  \/ Pending("renderCategorySteps", "readFile") \/ Pending("renderEpisodeSteps", "readFile")
  \/ Pending("renderCategorySteps", "catch") \/ Pending("renderEpisodeSteps", "catch")

\* C30: an invocation of the episode preview-image handler, of the category
\* renderer or of the episode renderer that is over has sent exactly one
\* response, with one of the statuses 200, 302, 400, 404, 405, 500; one that
\* is not over has sent nothing yet and can go on.
C30_ExactlyOneResponse ==
  Invoked =>
    IF resp.pc = "end"
    THEN /\ Len(resp.sent) = 1
         /\ resp.sent[1].status \in {200, 302, 400, 404, 405, 500}
    ELSE /\ resp.sent = <<>>
         /\ CanGoOn

\* the episode preview-image handler found the episode, failed to compose
\* its image, failed to compose the default image too, and has answered
\* once, with 500
C30_Witness ==
  /\ resp.handler = "ogImage" /\ resp.pc = "end"
  /\ resp.episode # None
  /\ resp.rendered = Some(FALSE) /\ resp.defaultRendered = Some(FALSE)
  /\ resp.sent = <<[status |-> 500, kind |-> "empty"]>>

====
